---- MODULE Spec2Model ----
(***************************************************************************)
(* Model of the SQF bytecode compiler backend of HEMTT                     *)
(* (libs/sqf/src/compiler/mod.rs): lowering of a Statements tree into      *)
(* Instructions with a shared, deduplicated constant pool and name pool.   *)
(*                                                                         *)
(* Values.  A name is a tuple of one-character strings, so that            *)
(* to_ascii_lowercase is computed character by character.  Expressions,    *)
(* statements, constants and instructions are records tagged by `kind`     *)
(* or `op`; each variant uses its own field names.  A Range<usize> span    *)
(* is modelled by its start offset, the only part the compiler reads.      *)
(* A Vec<T> is stored as a sequence of chunks of ChunkSize elements, all   *)
(* full but the last; VLen, VAt, VAppend and VConcat are len, indexing,    *)
(* push and extend on that layout.                                        *)
(***************************************************************************)
EXTENDS Integers, Sequences, FiniteSets, TLC

\* ------------------------------------------------------------------------
\* Integer widths
\* ------------------------------------------------------------------------

\* Number of values of a u16: u16::MAX + 1.
U16Range == 65536

\* `x as u16`: truncating cast.
AsU16(x) == x % U16Range

\* `x as u32`: truncating cast, the low two 16-bit halves of x.
AsU32(x) == (x % U16Range) + U16Range * ((x \div U16Range) % U16Range)

\* `usize -> u16` through try_into(): succeeds iff the value fits.
FitsU16(x) == x < U16Range

\* Number of values of a u8, the type of SourceInfo::file_index.
U8Range == 256

\* `usize -> u8` through try_into(): succeeds iff the value fits.
FitsU8(x) == x < U8Range

\* ------------------------------------------------------------------------
\* Vec
\* ------------------------------------------------------------------------

\* Elements per chunk of a stored Vec.
ChunkSize == 256

\* The function f over 1..n as a sequence value.
AsSeq(f) == <<>> \o f

\* Vec::len
VLen(v) == IF Len(v) = 0 THEN 0 ELSE (Len(v) - 1) * ChunkSize + Len(v[Len(v)])

\* v[i], i counted from 1.
VAt(v, i) == v[((i - 1) \div ChunkSize) + 1][((i - 1) % ChunkSize) + 1]

\* The Vec holding the elements of the sequence s.
Vec(s) ==
    AsSeq([c \in 1..((Len(s) + ChunkSize - 1) \div ChunkSize) |->
        AsSeq([i \in 1..(IF c * ChunkSize <= Len(s) THEN ChunkSize
                         ELSE Len(s) - (c - 1) * ChunkSize) |->
            s[(c - 1) * ChunkSize + i]])])

\* The elements of a Vec as one sequence.
Flat(v) == AsSeq([i \in 1..VLen(v) |-> VAt(v, i)])

\* Vec::push
VAppend(v, e) ==
    IF Len(v) = 0 \/ Len(v[Len(v)]) = ChunkSize
    THEN Append(v, <<e>>)
    ELSE [v EXCEPT ![Len(v)] = Append(@, e)]

\* Vec::extend with the elements of the sequence s.
VConcat(v, s) == IF Len(s) = 0 THEN v ELSE Vec(Flat(v) \o s)

\* The set of elements of a Vec.
VRange(v) == UNION {{v[c][i] : i \in 1..Len(v[c])} : c \in 1..Len(v)}

\* ------------------------------------------------------------------------
\* Errors and outcomes
\* ------------------------------------------------------------------------

NoErr == [kind |-> "None"]

\* CompileError::ListTooLong
ListTooLong == [kind |-> "ListTooLong"]

\* CompileError::InvalidName(String)
InvalidName(name) == [kind |-> "InvalidName", name |-> name]

\* An unwrap() on None inside location_to_source: the thread panics.
Panic == [kind |-> "Panic"]

\* ------------------------------------------------------------------------
\* Names and the command grammar
\* ------------------------------------------------------------------------

UpperChars == <<"A","B","C","D","E","F","G","H","I","J","K","L","M",
                "N","O","P","Q","R","S","T","U","V","W","X","Y","Z">>

LowerChars == <<"a","b","c","d","e","f","g","h","i","j","k","l","m",
                "n","o","p","q","r","s","t","u","v","w","x","y","z">>

DigitChars == <<"0","1","2","3","4","5","6","7","8","9">>

Range(s) == {s[i] : i \in DOMAIN s}

\* u8::to_ascii_lowercase on one character.
LowerChar(c) ==
    IF c \in Range(UpperChars)
    THEN LowerChars[CHOOSE i \in DOMAIN UpperChars : UpperChars[i] = c]
    ELSE c

\* str::to_ascii_lowercase
to_ascii_lowercase(name) == [i \in DOMAIN name |-> LowerChar(name[i])]

\* Commands of the grammar that are not identifiers.
OperatorCommands == {<<"+">>, <<"-">>, <<"!">>}

\* Nular commands the grammar flags as compile-time constants.
ConstantNulars == {<<"p","i">>}

IsAsciiAlphanumeric(c) ==
    c \in Range(UpperChars) \cup Range(LowerChars) \cup Range(DigitChars)

\* crate::parser::database::is_valid_command: an identifier, or an operator
\* of the grammar.
is_valid_command(name) ==
    \/ /\ Len(name) > 0
       /\ \A i \in DOMAIN name : IsAsciiAlphanumeric(name[i]) \/ name[i] = "_"
    \/ name \in OperatorCommands

\* NularCommand::is_constant
is_constant(name) == to_ascii_lowercase(name) \in ConstantNulars

\* try_normalize_name reporting the folded name.
try_normalize_name_FoldedInError(name) ==
    LET name_lower == to_ascii_lowercase(name) IN
    IF is_valid_command(name_lower)
    THEN [err |-> NoErr, val |-> name_lower]
    ELSE [err |-> InvalidName(name_lower), val |-> <<>>]

\* try_normalize_name without the case folding.
try_normalize_name_NoFold(name) ==
    IF is_valid_command(name)
    THEN [err |-> NoErr, val |-> name]
    ELSE [err |-> InvalidName(name), val |-> <<>>]

\* try_normalize_name: Ok(lowercased) or Err(InvalidName(original)).
try_normalize_name(name) ==
    LET name_lower == to_ascii_lowercase(name) IN
    IF is_valid_command(name_lower)
    THEN [err |-> NoErr, val |-> name_lower]
    ELSE [err |-> InvalidName(name), val |-> <<>>]

\* ------------------------------------------------------------------------
\* Tree, constants, instructions
\* ------------------------------------------------------------------------

\* Expression variants; the constructors take the elements of a Vec as a
\* sequence.
Array(items, loc) == [kind |-> "Array", items |-> Vec(items), loc |-> loc]
NularCommand(name, loc) == [kind |-> "NularCommand", name |-> name, loc |-> loc]
UnaryCommand(name, arg, loc) ==
    [kind |-> "UnaryCommand", name |-> name, arg |-> arg, loc |-> loc]
BinaryCommand(name, lhs, rhs, loc) ==
    [kind |-> "BinaryCommand", name |-> name, lhs |-> lhs, rhs |-> rhs, loc |-> loc]
Variable(name, loc) == [kind |-> "Variable", name |-> name, loc |-> loc]
Code(statements) == [kind |-> "Code", statements |-> statements]
String(s) == [kind |-> "String", str |-> s]
Number(n) == [kind |-> "Number", num |-> n]
Boolean(b) == [kind |-> "Boolean", bool |-> b]

\* Statement variants
AssignGlobal(name, expr, loc) ==
    [kind |-> "AssignGlobal", name |-> name, expr |-> expr, loc |-> loc]
AssignLocal(name, expr, loc) ==
    [kind |-> "AssignLocal", name |-> name, expr |-> expr, loc |-> loc]
ExpressionStatement(expr) == [kind |-> "Expression", expr |-> expr]

\* Statements { content, source }
Statements(content, source) == [content |-> Vec(content), source |-> source]

\* Constant variants
ConstCode(instructions) == [kind |-> "Code", code |-> instructions]
ConstString(s) == [kind |-> "String", str |-> s]
ConstScalar(n) == [kind |-> "Scalar", num |-> n]
ConstBoolean(b) == [kind |-> "Boolean", bool |-> b]
ConstArray(items) == [kind |-> "Array", items |-> Vec(items)]
ConstNularCommand(name) == [kind |-> "NularCommand", name |-> name]

\* Instructions { contents, source_string_index }, contents a Vec.
Instructions(contents, source_string_index) ==
    [contents |-> contents, source_string_index |-> source_string_index]

\* Instruction variants
EndStatement == [op |-> "EndStatement"]
Push(index) == [op |-> "Push", idx |-> index]
AssignTo(index, src) == [op |-> "AssignTo", idx |-> index, src |-> src]
AssignToLocal(index, src) == [op |-> "AssignToLocal", idx |-> index, src |-> src]
MakeArray(count, src) == [op |-> "MakeArray", count |-> count, src |-> src]
CallNular(index, src) == [op |-> "CallNular", idx |-> index, src |-> src]
CallUnary(index, src) == [op |-> "CallUnary", idx |-> index, src |-> src]
CallBinary(index, src) == [op |-> "CallBinary", idx |-> index, src |-> src]
GetVariable(index, src) == [op |-> "GetVariable", idx |-> index, src |-> src]

\* The instruction of the given opcode that carries a name index and a
\* SourceInfo.
Named(op, index, src) ==
    CASE op = "AssignTo" -> AssignTo(index, src)
      [] op = "AssignToLocal" -> AssignToLocal(index, src)
      [] op = "CallNular" -> CallNular(index, src)
      [] op = "CallUnary" -> CallUnary(index, src)
      [] op = "CallBinary" -> CallBinary(index, src)
      [] op = "GetVariable" -> GetVariable(index, src)

\* ------------------------------------------------------------------------
\* The pools
\* ------------------------------------------------------------------------

\* Context { constants_cache, names_cache }
Context(constants, names) == [constants_cache |-> constants, names_cache |-> names]

\* Iterator::position over a Vec: zero-based index of the first equal
\* item, or -1.
Position(collection, value) ==
    LET holds(c) == \E i \in 1..Len(collection[c]) : collection[c][i] = value IN
    IF \E c \in 1..Len(collection) : holds(c)
    THEN LET c == CHOOSE k \in 1..Len(collection) :
                      holds(k) /\ \A j \in 1..(k - 1) : ~holds(j)
             i == CHOOSE k \in 1..Len(collection[c]) :
                      /\ collection[c][k] = value
                      /\ \A j \in 1..(k - 1) : collection[c][j] # value
         IN  (c - 1) * ChunkSize + i - 1
    ELSE -1

\* add_or_get_index without the search: every value is pushed.
add_or_get_index_AlwaysPush(collection, value) ==
    [coll |-> VAppend(collection, value),
     err  |-> IF FitsU16(VLen(collection)) THEN NoErr ELSE ListTooLong,
     idx  |-> IF FitsU16(VLen(collection)) THEN VLen(collection) ELSE 0]

\* add_or_get_index reading the length after the push.
add_or_get_index_LenAfterPush(collection, value) ==
    LET found == Position(collection, value)
        pushed == IF found >= 0 THEN collection ELSE VAppend(collection, value)
        value_index == IF found >= 0 THEN found ELSE VLen(pushed)
    IN  [coll |-> pushed,
         err  |-> IF FitsU16(value_index) THEN NoErr ELSE ListTooLong,
         idx  |-> IF FitsU16(value_index) THEN value_index ELSE 0]

\* add_or_get_index: the collection after the call and Ok(index) or the
\* capacity error.  A value that is not found is pushed before the index is
\* converted to u16.
add_or_get_index(collection, value) ==
    LET found == Position(collection, value)
        value_index == IF found >= 0 THEN found ELSE VLen(collection)
        pushed == IF found >= 0 THEN collection ELSE VAppend(collection, value)
    IN  [coll |-> pushed,
         err  |-> IF FitsU16(value_index) THEN NoErr ELSE ListTooLong,
         idx  |-> IF FitsU16(value_index) THEN value_index ELSE 0]

\* Context::add_constant
add_constant(ctx, constant) ==
    LET r == add_or_get_index(ctx.constants_cache, constant) IN
    [ctx |-> Context(r.coll, ctx.names_cache), err |-> r.err, idx |-> r.idx]

\* Context::add_name
add_name(ctx, name) ==
    LET n == try_normalize_name(name) IN
    IF n.err # NoErr
    THEN [ctx |-> ctx, err |-> n.err, idx |-> 0]
    ELSE LET r == add_or_get_index(ctx.names_cache, n.val) IN
         [ctx |-> Context(ctx.constants_cache, r.coll), err |-> r.err, idx |-> r.idx]

\* ------------------------------------------------------------------------
\* Source mapping
\* ------------------------------------------------------------------------

\* SourceInfo { offset, file_index, file_line }
SourceInfo(offset, file_index, file_line) ==
    [offset |-> offset, file_index |-> file_index, file_line |-> file_line]

\* Processed: sources() is the ordered list of known files, mapping(offset)
\* is defined for the offsets in the domain of `mapping` and gives the
\* original path and line.
Processed(sources, mapping) == [sources |-> sources, mapping |-> mapping]

\* location_to_source that answers an unmapped offset with an empty
\* SourceInfo.
location_to_source_Lenient(processed, location) ==
    IF location \notin DOMAIN processed.mapping
    THEN [err |-> NoErr, src |-> SourceInfo(AsU32(location), 0, 0)]
    ELSE IF Position(processed.sources, processed.mapping[location].path) < 0
            \/ ~FitsU8(Position(processed.sources, processed.mapping[location].path))
    THEN [err |-> Panic, src |-> SourceInfo(0, 0, 0)]
    ELSE [err |-> NoErr,
          src |-> SourceInfo(AsU32(location),
                             Position(processed.sources, processed.mapping[location].path),
                             AsU16(processed.mapping[location].line))]

\* location_to_source that gives every span the first of the sources.
location_to_source_FirstFile(processed, location) ==
    IF location \notin DOMAIN processed.mapping
    THEN [err |-> Panic, src |-> SourceInfo(0, 0, 0)]
    ELSE [err |-> NoErr,
          src |-> SourceInfo(AsU32(location), 0, AsU16(processed.mapping[location].line))]

\* location_to_source: panics when the offset is not mapped, when the
\* mapped path is not among the sources, and when the position of the path
\* among the sources does not fit the type of file_index.
location_to_source(processed, location) ==
    IF location \notin DOMAIN processed.mapping
    THEN [err |-> Panic, src |-> SourceInfo(0, 0, 0)]
    ELSE LET map == processed.mapping[location]
             pos == Position(processed.sources, map.path)
         IN  IF pos < 0 \/ ~FitsU8(pos)
             THEN [err |-> Panic, src |-> SourceInfo(0, 0, 0)]
             ELSE [err |-> NoErr,
                   src |-> SourceInfo(AsU32(location), pos, AsU16(map.line))]

\* ------------------------------------------------------------------------
\* Lowering
\* ------------------------------------------------------------------------
\* Every lowering operator returns the context after the call, the error
\* (NoErr on success) and its product: `out`, the instructions it pushed on
\* the caller's vector (also when it failed: a `?` or a panic takes nothing
\* off the vector), or `val`, the value it returned.  The result of a
\* call is handed to a local operator that states what follows the call.
\* The loops over a list are folds over the index range lo..hi, left to
\* right, that stop at the first error; the range is split in halves to
\* bound the nesting of the evaluation.

RECURSIVE compile_to_instructions(_, _, _)
RECURSIVE LowerStatements(_, _, _, _, _)
RECURSIVE Statement_compile_instructions(_, _, _)
RECURSIVE Expression_compile_instructions(_, _, _)
RECURSIVE LowerElements(_, _, _, _, _)
RECURSIVE compile_constant(_, _, _)
RECURSIVE CollectConstants(_, _, _, _, _)

\* The span resolved before the name is interned.
EmitNamed_SpanFirst(ctx, before, name, location, processed, op) ==
    LET Emit(s, n) ==
            IF s.err # NoErr THEN [ctx |-> ctx, err |-> s.err, out |-> before]
            ELSE IF n.err # NoErr THEN [ctx |-> n.ctx, err |-> n.err, out |-> before]
            ELSE [ctx |-> n.ctx, err |-> NoErr, out |-> Append(before, Named(op, n.idx, s.src))]
    IN  Emit(location_to_source(processed, location), add_name(ctx, name))

\* Name interned, then the instruction `op` built with its SourceInfo
\* (ctx.add_name(..)? followed by instructions.push(op(name_index,
\* location_to_source(..)))), after the instructions `before`, which stay
\* on the Vec when the name or the span fails.
EmitNamed(ctx, before, name, location, processed, op) ==
    LET Emit(n, s) ==
            IF n.err # NoErr THEN [ctx |-> n.ctx, err |-> n.err, out |-> before]
            ELSE IF s.err # NoErr THEN [ctx |-> n.ctx, err |-> s.err, out |-> before]
            ELSE [ctx |-> n.ctx, err |-> NoErr, out |-> Append(before, Named(op, n.idx, s.src))]
    IN  Emit(add_name(ctx, name), location_to_source(processed, location))

\* compile_constant compiling a Code block against pools of its own.
compile_constant_IsolatedCode(e, processed, ctx) ==
    LET CodeOf(r) ==
            [ctx |-> ctx, err |-> r.err, some |-> r.err = NoErr,
             val |-> ConstCode(r.val)]
        ArrayOf(r) ==
            [ctx |-> r.ctx, err |-> r.err, some |-> r.err = NoErr /\ ~r.none,
             val |-> ConstArray(r.vals)]
        NularOf(n) ==
            [ctx |-> ctx, err |-> n.err, some |-> n.err = NoErr,
             val |-> ConstNularCommand(n.val)]
    IN  CASE e.kind = "Code" ->
               CodeOf(compile_to_instructions(e.statements, processed,
                                              Context(Vec(<<>>), Vec(<<>>))))
          [] e.kind = "String" ->
               [ctx |-> ctx, err |-> NoErr, some |-> TRUE, val |-> ConstString(e.str)]
          [] e.kind = "Number" ->
               [ctx |-> ctx, err |-> NoErr, some |-> TRUE, val |-> ConstScalar(e.num)]
          [] e.kind = "Boolean" ->
               [ctx |-> ctx, err |-> NoErr, some |-> TRUE, val |-> ConstBoolean(e.bool)]
          [] e.kind = "Array" ->
               ArrayOf(CollectConstants(e.items, 1, VLen(e.items), processed, ctx))
          [] e.kind = "NularCommand" /\ is_constant(e.name) ->
               NularOf(try_normalize_name(e.name))
          [] OTHER ->
               [ctx |-> ctx, err |-> NoErr, some |-> FALSE, val |-> ConstBoolean(FALSE)]

\* compile_constant folding the elements of an Array that precede the first
\* element that does not fold.
compile_constant_PartialFold(e, processed, ctx) ==
    LET CodeOf(r) ==
            [ctx |-> r.ctx, err |-> r.err, some |-> r.err = NoErr,
             val |-> ConstCode(r.val)]
        ArrayOf(r) ==
            [ctx |-> r.ctx, err |-> r.err, some |-> r.err = NoErr,
             val |-> ConstArray(r.vals)]
        NularOf(n) ==
            [ctx |-> ctx, err |-> n.err, some |-> n.err = NoErr,
             val |-> ConstNularCommand(n.val)]
    IN  CASE e.kind = "Code" ->
               CodeOf(compile_to_instructions(e.statements, processed, ctx))
          [] e.kind = "String" ->
               [ctx |-> ctx, err |-> NoErr, some |-> TRUE, val |-> ConstString(e.str)]
          [] e.kind = "Number" ->
               [ctx |-> ctx, err |-> NoErr, some |-> TRUE, val |-> ConstScalar(e.num)]
          [] e.kind = "Boolean" ->
               [ctx |-> ctx, err |-> NoErr, some |-> TRUE, val |-> ConstBoolean(e.bool)]
          [] e.kind = "Array" ->
               ArrayOf(CollectConstants(e.items, 1, VLen(e.items), processed, ctx))
          [] e.kind = "NularCommand" /\ is_constant(e.name) ->
               NularOf(try_normalize_name(e.name))
          [] OTHER ->
               [ctx |-> ctx, err |-> NoErr, some |-> FALSE, val |-> ConstBoolean(FALSE)]

\* Expression::compile_constant: Ok(Some(constant)), Ok(None) or Err.
compile_constant(e, processed, ctx) ==
    LET CodeOf(r) ==
            [ctx |-> r.ctx, err |-> r.err, some |-> r.err = NoErr,
             val |-> ConstCode(r.val)]
        ArrayOf(r) ==
            [ctx |-> r.ctx, err |-> r.err, some |-> r.err = NoErr /\ ~r.none,
             val |-> ConstArray(r.vals)]
        NularOf(n) ==
            [ctx |-> ctx, err |-> n.err, some |-> n.err = NoErr,
             val |-> ConstNularCommand(n.val)]
    IN  CASE e.kind = "Code" ->
               CodeOf(compile_to_instructions(e.statements, processed, ctx))
          [] e.kind = "String" ->
               [ctx |-> ctx, err |-> NoErr, some |-> TRUE, val |-> ConstString(e.str)]
          [] e.kind = "Number" ->
               [ctx |-> ctx, err |-> NoErr, some |-> TRUE, val |-> ConstScalar(e.num)]
          [] e.kind = "Boolean" ->
               [ctx |-> ctx, err |-> NoErr, some |-> TRUE, val |-> ConstBoolean(e.bool)]
          [] e.kind = "Array" ->
               ArrayOf(CollectConstants(e.items, 1, VLen(e.items), processed, ctx))
          [] e.kind = "NularCommand" /\ is_constant(e.name) ->
               NularOf(try_normalize_name(e.name))
          [] OTHER ->
               [ctx |-> ctx, err |-> NoErr, some |-> FALSE, val |-> ConstBoolean(FALSE)]

\* array.iter().map(compile_constant).collect::<Result<Option<Vec<_>>>>():
\* stops at the first element that is an error or that does not fold.
CollectConstants(items, lo, hi, processed, ctx) ==
    LET One(c) ==
            [ctx |-> c.ctx, err |-> c.err, none |-> c.err = NoErr /\ ~c.some,
             vals |-> IF c.some THEN <<c.val>> ELSE <<>>]
        Join(left, right) ==
            [ctx |-> right.ctx, err |-> right.err, none |-> right.none,
             vals |-> left.vals \o right.vals]
        Rest(left, mid) ==
            IF left.err # NoErr \/ left.none THEN left
            ELSE Join(left, CollectConstants(items, mid + 1, hi, processed, left.ctx))
    IN  IF lo > hi THEN [ctx |-> ctx, err |-> NoErr, none |-> FALSE, vals |-> <<>>]
        ELSE IF lo = hi THEN One(compile_constant(VAt(items, lo), processed, ctx))
        ELSE Rest(CollectConstants(items, lo, (lo + hi) \div 2, processed, ctx),
                  (lo + hi) \div 2)

\* for array_expr in array { array_expr.compile_instructions(..)?; }
LowerElements(items, lo, hi, processed, ctx) ==
    LET Join(left, right) ==
            [ctx |-> right.ctx, err |-> right.err, out |-> left.out \o right.out]
        Rest(left, mid) ==
            IF left.err # NoErr THEN left
            ELSE Join(left, LowerElements(items, mid + 1, hi, processed, left.ctx))
    IN  IF lo > hi THEN [ctx |-> ctx, err |-> NoErr, out |-> <<>>]
        ELSE IF lo = hi
        THEN Expression_compile_instructions(VAt(items, lo), processed, ctx)
        ELSE Rest(LowerElements(items, lo, (lo + hi) \div 2, processed, ctx),
                  (lo + hi) \div 2)

\* Expression::compile_instructions
Expression_compile_instructions(e, processed, ctx) ==
    LET PushOf(a) ==
            [ctx |-> a.ctx, err |-> a.err,
             out |-> IF a.err = NoErr THEN <<Push(a.idx)>> ELSE <<>>]
        MakeArrayOf(r, s) ==
            IF r.err # NoErr THEN r
            ELSE IF s.err # NoErr THEN [ctx |-> r.ctx, err |-> s.err, out |-> r.out]
            ELSE [ctx |-> r.ctx, err |-> NoErr,
                  out |-> Append(r.out, MakeArray(VLen(e.items), s.src))]
        UnaryOf(r) ==
            IF r.err # NoErr THEN r
            ELSE EmitNamed(r.ctx, r.out, e.name, e.loc, processed, "CallUnary")
        BinaryOf(r1, r2) ==
            IF r2.err # NoErr
            THEN [ctx |-> r2.ctx, err |-> r2.err, out |-> r1.out \o r2.out]
            ELSE EmitNamed(r2.ctx, r1.out \o r2.out, e.name, e.loc, processed,
                           "CallBinary")
        RhsOf(r1) ==
            IF r1.err # NoErr THEN r1
            ELSE BinaryOf(r1, Expression_compile_instructions(e.rhs, processed, r1.ctx))
        Lower(c) ==
            IF c.err # NoErr THEN [ctx |-> c.ctx, err |-> c.err, out |-> <<>>]
            ELSE IF c.some THEN PushOf(add_constant(c.ctx, c.val))
            ELSE CASE e.kind = "Array" ->
                   IF ~FitsU16(VLen(e.items))
                   THEN [ctx |-> c.ctx, err |-> ListTooLong, out |-> <<>>]
                   ELSE MakeArrayOf(LowerElements(e.items, 1, VLen(e.items),
                                                  processed, c.ctx),
                                    location_to_source(processed, e.loc))
              [] e.kind = "NularCommand" ->
                   EmitNamed(c.ctx, <<>>, e.name, e.loc, processed, "CallNular")
              [] e.kind = "UnaryCommand" ->
                   UnaryOf(Expression_compile_instructions(e.arg, processed, c.ctx))
              [] e.kind = "BinaryCommand" ->
                   RhsOf(Expression_compile_instructions(e.lhs, processed, c.ctx))
              [] e.kind = "Variable" ->
                   EmitNamed(c.ctx, <<>>, e.name, e.loc, processed, "GetVariable")
    IN  Lower(compile_constant(e, processed, ctx))

\* Statement::compile_instructions that interns the target of an assignment
\* before it lowers the right-hand side.
Statement_compile_instructions_TargetFirst(s, processed, ctx) ==
    LET Emit(n, r, l) ==
            IF n.err # NoErr THEN [ctx |-> n.ctx, err |-> n.err, out |-> <<EndStatement>>]
            ELSE IF r.err # NoErr
            THEN [ctx |-> r.ctx, err |-> r.err, out |-> <<EndStatement>> \o r.out]
            ELSE IF l.err # NoErr
            THEN [ctx |-> r.ctx, err |-> l.err, out |-> <<EndStatement>> \o r.out]
            ELSE [ctx |-> r.ctx, err |-> NoErr,
                  out |-> <<EndStatement>> \o r.out \o
                          <<Named(IF s.kind = "AssignGlobal" THEN "AssignTo"
                                  ELSE "AssignToLocal", n.idx, l.src)>>]
        Target(n) ==
            Emit(n, Expression_compile_instructions(s.expr, processed, n.ctx),
                 location_to_source(processed, s.loc))
        Bare(r) == [ctx |-> r.ctx, err |-> r.err, out |-> <<EndStatement>> \o r.out]
    IN  IF s.kind = "Expression"
        THEN Bare(Expression_compile_instructions(s.expr, processed, ctx))
        ELSE Target(add_name(ctx, s.name))

\* Statement::compile_instructions that marks assignments only.
Statement_compile_instructions_BareExpression(s, processed, ctx) ==
    LET Finish(r) ==
            IF r.err # NoErr
            THEN [ctx |-> r.ctx, err |-> r.err,
                  out |-> IF s.kind = "Expression" THEN r.out
                          ELSE <<EndStatement>> \o r.out]
            ELSE CASE s.kind = "AssignGlobal" ->
                   EmitNamed(r.ctx, <<EndStatement>> \o r.out, s.name, s.loc,
                             processed, "AssignTo")
              [] s.kind = "AssignLocal" ->
                   EmitNamed(r.ctx, <<EndStatement>> \o r.out, s.name, s.loc,
                             processed, "AssignToLocal")
              [] s.kind = "Expression" -> r
    IN  Finish(Expression_compile_instructions(s.expr, processed, ctx))

\* Statement::compile_instructions with the EndStatement marker pushed after
\* the statement.
Statement_compile_instructions_EndLast(s, processed, ctx) ==
    LET Mark(r) ==
            IF r.err # NoErr THEN r
            ELSE [ctx |-> r.ctx, err |-> NoErr, out |-> Append(r.out, EndStatement)]
        Finish(r) ==
            IF r.err # NoErr THEN r
            ELSE CASE s.kind = "AssignGlobal" ->
                   Mark(EmitNamed(r.ctx, r.out, s.name, s.loc, processed, "AssignTo"))
              [] s.kind = "AssignLocal" ->
                   Mark(EmitNamed(r.ctx, r.out, s.name, s.loc, processed, "AssignToLocal"))
              [] s.kind = "Expression" ->
                   Mark(r)
    IN  Finish(Expression_compile_instructions(s.expr, processed, ctx))

\* Statement::compile_instructions: EndStatement is pushed before the
\* expression is lowered and stays on the Vec when the statement fails.
Statement_compile_instructions(s, processed, ctx) ==
    LET Finish(r) ==
            IF r.err # NoErr
            THEN [ctx |-> r.ctx, err |-> r.err, out |-> <<EndStatement>> \o r.out]
            ELSE CASE s.kind = "AssignGlobal" ->
                   EmitNamed(r.ctx, <<EndStatement>> \o r.out, s.name, s.loc,
                             processed, "AssignTo")
              [] s.kind = "AssignLocal" ->
                   EmitNamed(r.ctx, <<EndStatement>> \o r.out, s.name, s.loc,
                             processed, "AssignToLocal")
              [] s.kind = "Expression" ->
                   [ctx |-> r.ctx, err |-> NoErr, out |-> <<EndStatement>> \o r.out]
    IN  Finish(Expression_compile_instructions(s.expr, processed, ctx))

\* for statement in &self.content { statement.compile_instructions(..)?; }
LowerStatements(content, lo, hi, processed, ctx) ==
    LET Join(left, right) ==
            [ctx |-> right.ctx, err |-> right.err, out |-> left.out \o right.out]
        Rest(left, mid) ==
            IF left.err # NoErr THEN left
            ELSE Join(left, LowerStatements(content, mid + 1, hi, processed, left.ctx))
    IN  IF lo > hi THEN [ctx |-> ctx, err |-> NoErr, out |-> <<>>]
        ELSE IF lo = hi
        THEN Statement_compile_instructions(VAt(content, lo), processed, ctx)
        ELSE Rest(LowerStatements(content, lo, (lo + hi) \div 2, processed, ctx),
                  (lo + hi) \div 2)

\* The tail of compile_to_instructions: the source string is interned after
\* the statements and the Instructions value is built from the Vec of
\* instructions.
FinishInstructions(contents, source, ctx) ==
    LET Built(a) == [ctx |-> a.ctx, err |-> a.err, val |-> Instructions(contents, a.idx)]
    IN  Built(add_constant(ctx, ConstString(source)))

\* Statements::compile_to_instructions
compile_to_instructions(statements, processed, ctx) ==
    LET Finish(r) ==
            IF r.err # NoErr
            THEN [ctx |-> r.ctx, err |-> r.err, val |-> Instructions(<<>>, 0)]
            ELSE FinishInstructions(Vec(r.out), statements.source, r.ctx)
    IN  Finish(LowerStatements(statements.content, 1, VLen(statements.content),
                               processed, ctx))

\* Compiled { entry_point, constants_cache_compression, constants_cache,
\*            names_cache, file_names }
Compiled(entry_point, constants, names, file_names) ==
    [entry_point |-> entry_point,
     constants_cache_compression |-> TRUE,
     constants_cache |-> constants,
     names_cache |-> names,
     file_names |-> file_names]

\* The part of Statements::compile after compile_to_instructions: the entry
\* point is pushed without a search, at the index `len as u16`.
Assembled(entrypoint_code, ctx, processed) ==
    LET entrypoint_index == AsU16(VLen(ctx.constants_cache)) IN
    Compiled(entrypoint_index,
             VAppend(ctx.constants_cache, ConstCode(entrypoint_code)),
             ctx.names_cache,
             processed.sources)

\* ------------------------------------------------------------------------
\* Inputs
\* ------------------------------------------------------------------------

\* Longest array literal and longest statement list that are enumerated.
MaxArrayLen == 2
MaxStatements == 2

\* Length below which a run of literal statements is lowered one by one.
RunMin == 3

\* First number of the large literal runs, above the small literals.
BulkBase == 1000

nx == <<"x">>
nX == <<"X">>
ny == <<"y">>
nfoo == <<"f","o","o">>
nFoo == <<"F","o","o">>
nBad == <<"B","a","d","!">>
nWorse == <<"W","o","r","s","e","?">>
nPlus == <<"+">>
nPi == <<"P","i">>
nCount == <<"C","o","u","n","t">>
ncount == <<"c","o","u","n","t">>

FileA == "a.sqf"
FileB == "b.hpp"

\* Every offset used by the trees is mapped; the line of offset 1 does not
\* fit 16 bits.
ProcFull ==
    Processed(Vec(<<FileA, FileB>>),
              (0 :> [path |-> FileA, line |-> 1]) @@
              (1 :> [path |-> FileB, line |-> U16Range + 7]))

\* Offset 1 has no mapping.
ProcPartial ==
    Processed(Vec(<<FileA, FileB>>), (0 :> [path |-> FileA, line |-> 1]))

ProcessedInputs == {ProcFull, ProcPartial}

\* No offset has a mapping.
ProcNone == Processed(Vec(<<FileA, FileB>>), <<>>)

\* Tuples over S of length 0..n.
SeqsUpTo(S, n) == UNION {[1..k -> S] : k \in 0..n}

Literals == {Number(1), Number(2), String("a"), Boolean(TRUE)}

Leaves ==
    Literals \cup
    {Variable(nx, 0), Variable(nX, 0), Variable(nBad, 0), Variable(ny, 1),
     NularCommand(nPi, 0), NularCommand(nfoo, 1)}

\* Statement lists of nested code blocks.
InnerBlocks ==
    {Statements(<<>>, "s"),
     Statements(<<ExpressionStatement(Number(1))>>, "a"),
     Statements(<<AssignGlobal(ny, Number(1), 0)>>, "n"),
     Statements(<<AssignLocal(nX, Variable(nx, 1), 0)>>, "n"),
     Statements(<<ExpressionStatement(Variable(nBad, 0))>>, "n"),
     Statements(<<ExpressionStatement(Code(Statements(<<>>, "s")))>>, "n")}

Blocks == {Code(b) : b \in InnerBlocks}

ArrayElements ==
    {Number(1), Number(2), Variable(nx, 0), Variable(nBad, 1),
     Code(Statements(<<AssignGlobal(ny, Number(1), 0)>>, "n")),
     Array(<<Number(1)>>, 0), Array(<<Variable(nX, 1)>>, 0)}

\* [2, { y = 1 }, x]: a literal ahead of a block in an array that does not
\* fold.
LiteralBlockVariable ==
    Array(<<Number(2), Code(Statements(<<AssignGlobal(ny, Number(1), 0)>>, "n")),
            Variable(nx, 0)>>, 1)

Arrays ==
    {Array(items, 1) : items \in SeqsUpTo(ArrayElements, MaxArrayLen)} \cup
    {LiteralBlockVariable}

Operands == {Number(1), Number(2), Variable(nx, 0), Variable(nBad, 0)}

Commands ==
    {UnaryCommand(n, e, 0) : n \in {nCount, nBad}, e \in Leaves} \cup
    {BinaryCommand(nPlus, l, r, 1) : l \in Operands, r \in Operands} \cup
    {UnaryCommand(nCount, a, 0) : a \in {Array(<<Number(1), Variable(nX, 0)>>, 0),
                                          Code(Statements(<<>>, "s")),
                                          Variable(ncount, 0)}}

Expressions == Leaves \cup Blocks \cup Arrays \cup Commands

AllStatements ==
    {ExpressionStatement(e) : e \in Expressions} \cup
    {AssignGlobal(n, e, 0) : n \in {nx, nFoo, nBad}, e \in Expressions} \cup
    {AssignLocal(nfoo, e, 1) : e \in Leaves \cup Blocks}

\* Statements that are combined into longer lists.
ShortStatements ==
    {ExpressionStatement(Number(1)),
     ExpressionStatement(String("s")),
     ExpressionStatement(Variable(nX, 0)),
     ExpressionStatement(Variable(nBad, 0)),
     ExpressionStatement(Code(Statements(<<ExpressionStatement(Number(1))>>, "s"))),
     ExpressionStatement(Array(<<Number(1), Variable(nx, 1)>>, 0)),
     ExpressionStatement(Array(<<Number(1), Number(1)>>, 0)),
     AssignGlobal(nx, Number(1), 0),
     AssignLocal(nFoo, Variable(nfoo, 0), 0)}

SmallTrees ==
    {Statements(<<s>>, "s") : s \in AllStatements} \cup
    {Statements(c, "s") : c \in SeqsUpTo(ShortStatements, MaxStatements)}

\* A run of p literal statements with pairwise distinct numbers.
LiteralRun(p) == AsSeq([i \in 1..p |-> ExpressionStatement(Number(BulkBase + i))])

BulkTails ==
    {<<>>,
     <<ExpressionStatement(Number(1))>>,
     <<ExpressionStatement(String("s"))>>}

\* Programs whose constants fill the pool up to the limit of a u16 index.
BulkTrees ==
    {Statements(LiteralRun(p) \o t, "s") :
        p \in {U16Range - 2, U16Range - 1, U16Range}, t \in BulkTails}

\* An array of n elements: n numbers, or a variable followed by n-1 numbers.
LongArray(n, literal) ==
    Array(AsSeq([i \in 1..n |->
                    IF i = 1 /\ ~literal THEN Variable(nx, 0) ELSE Number(1)]), 0)

LongArrayTrees ==
    {Statements(<<ExpressionStatement(LongArray(n, lit))>>, "s") :
        n \in {U16Range - 1, U16Range}, lit \in BOOLEAN}

\* Programs with two names that the grammar rejects.
TwoNameTrees ==
    {Statements(<<ExpressionStatement(
                     BinaryCommand(nPlus, Variable(nWorse, 0), Variable(nBad, 0), 1))>>, "s"),
     Statements(<<ExpressionStatement(Variable(nBad, 0)),
                  ExpressionStatement(Variable(nWorse, 0))>>, "s"),
     Statements(<<AssignGlobal(nWorse, Variable(nBad, 0), 0)>>, "s"),
     Statements(<<AssignGlobal(nBad, UnaryCommand(nWorse, Number(1), 0), 0)>>, "s"),
     Statements(<<ExpressionStatement(UnaryCommand(nBad, Variable(nWorse, 1), 0))>>, "s"),
     Statements(<<ExpressionStatement(
                     Array(<<Code(Statements(<<ExpressionStatement(Variable(nWorse, 0))>>,
                                             "n")),
                             Variable(nBad, 1)>>, 0))>>, "s")}

\* Statements that follow a run of literals which fills the pool: they
\* intern a new constant, a constant of the run, a name the grammar
\* rejects, or several of these in either order.
FullPoolTails ==
    {<<>>,
     <<ExpressionStatement(Number(1))>>,
     <<ExpressionStatement(Variable(nBad, 0))>>,
     <<ExpressionStatement(Number(1)), ExpressionStatement(Variable(nBad, 0))>>,
     <<AssignGlobal(nBad, Number(1), 0)>>,
     <<AssignGlobal(nBad, Number(BulkBase + 1), 0)>>,
     <<ExpressionStatement(Variable(ny, 1))>>,
     <<ExpressionStatement(Array(<<Number(2), Variable(nBad, 1)>>, 0))>>,
     <<ExpressionStatement(
          Code(Statements(<<ExpressionStatement(Number(1)),
                            ExpressionStatement(Variable(nBad, 0))>>, "s")))>>}

\* Statements that follow a run of literals which leaves room for one more
\* constant.
NearFullTails ==
    {<<>>,
     <<ExpressionStatement(Number(1))>>,
     <<ExpressionStatement(Number(1)), ExpressionStatement(Variable(nBad, 0))>>,
     <<ExpressionStatement(Array(<<Number(2), Variable(nBad, 1)>>, 0))>>}

\* Programs that fill the pool and then go on.
FullPoolTrees ==
    {Statements(LiteralRun(U16Range) \o t, "s") : t \in FullPoolTails} \cup
    {Statements(LiteralRun(U16Range - 1) \o t, "s") : t \in NearFullTails}

\* An array of n elements: those of head, then the number 1 repeated.
LongArrayFrom(head, n) ==
    Array(AsSeq([i \in 1..n |-> IF i <= Len(head) THEN head[i] ELSE Number(1)]), 0)

\* First elements of long arrays that do not fold: a variable, a name the
\* grammar rejects, a block with such a name ahead of a variable, a variable
\* at an offset that ProcPartial does not map.
LongArrayHeads ==
    {<<Variable(nx, 0)>>,
     <<Variable(nBad, 0)>>,
     <<Code(Statements(<<ExpressionStatement(Variable(nBad, 0))>>, "n")), Variable(nx, 0)>>,
     <<Variable(ny, 1)>>}

\* Programs with an array at the limit of a u16 length, alone or next to a
\* statement with a name the grammar rejects.
LongArrayFailureTrees ==
    {Statements(<<ExpressionStatement(LongArrayFrom(h, n))>>, "s") :
        h \in LongArrayHeads, n \in {U16Range - 1, U16Range}} \cup
    {Statements(<<ExpressionStatement(Variable(nBad, 0)),
                  ExpressionStatement(LongArrayFrom(<<Variable(nx, 0)>>, U16Range))>>, "s"),
     Statements(<<ExpressionStatement(LongArrayFrom(<<Variable(nx, 0)>>, U16Range)),
                  ExpressionStatement(Variable(nBad, 0))>>, "s")}

\* ------------------------------------------------------------------------
\* State
\* ------------------------------------------------------------------------

VARIABLES
    tree,             \* self: the Statements being compiled
    processed,        \* the Processed handed to compile
    pc,               \* "lowering" inside the loop of compile_to_instructions, "done"
    cursor,           \* number of statements of tree.content already lowered
    instructions,     \* the local Vec<Instruction> of the top-level call
    constants_cache,  \* ctx.constants_cache
    names_cache,      \* ctx.names_cache
    result,           \* what compile returned
    peer,             \* another invocation of compile that runs concurrently
    tokens,           \* Str::parse: the token stream as handed to parse
    consumed,         \* Str::parse: number of tokens taken with next()
    string            \* Str::parse: the local `string`

\* The state of Str::parse.
parser == <<tokens, consumed, string>>

vars == <<tree, processed, pc, cursor, instructions, constants_cache,
          names_cache, result, peer, tokens, consumed, string>>

NoResult == [status |-> "running"]
Ok(compiled) == [status |-> "ok", compiled |-> compiled]
Err(error) == [status |-> "err", error |-> error]
Panicked == [status |-> "panic"]

\* No other invocation.
NoPeer == [status |-> "none"]

\* Str::parse is not running.
NotParsing ==
    /\ tokens = <<>>
    /\ consumed = 0
    /\ string = <<>>

\* The outcome of a call that stopped with `error`.
Failure(error) == IF error = Panic THEN Panicked ELSE Err(error)

\* The state at the start of the loop of the top-level
\* compile_to_instructions: compile has built an empty Context.
Entered ==
    /\ pc = "lowering"
    /\ cursor = 0
    /\ instructions = Vec(<<>>)
    /\ constants_cache = Vec(<<>>)
    /\ names_cache = Vec(<<>>)
    /\ result = NoResult

\* Statements::compile as a whole: what one call returns when nothing else
\* runs.
compile(t, p) ==
    LET Finish(r) ==
            IF r.err # NoErr THEN Failure(r.err)
            ELSE Ok(Assembled(r.val, r.ctx, p))
    IN  Finish(compile_to_instructions(t, p, Context(Vec(<<>>), Vec(<<>>))))

Init ==
    /\ tree \in SmallTrees
    /\ processed \in ProcessedInputs
    /\ Entered
    /\ peer = NoPeer
    /\ NotParsing

\* The trees of Init with a Processed that lacks mappings.
UnmappedInit ==
    /\ tree \in SmallTrees
    /\ processed \in {ProcPartial, ProcNone}
    /\ Entered
    /\ peer = NoPeer
    /\ NotParsing

\* Programs at the limits of a u16 index, next to short ones.
CapacityInit ==
    /\ tree \in BulkTrees \cup LongArrayTrees \cup
                {Statements(c, "s") : c \in SeqsUpTo(ShortStatements, MaxStatements)}
    /\ processed = ProcFull
    /\ Entered
    /\ peer = NoPeer
    /\ NotParsing

\* The programs of Init and programs with two rejected names, with either
\* Processed, next to programs at the limits of a u16 index.
FailureInit ==
    /\ \/ /\ tree \in SmallTrees \cup TwoNameTrees
          /\ processed \in ProcessedInputs
       \/ /\ tree \in FullPoolTrees \cup LongArrayFailureTrees
          /\ processed = ProcFull
       \/ /\ tree \in {Statements(LiteralRun(U16Range) \o
                                   <<ExpressionStatement(Variable(ny, 1))>>, "s"),
                        Statements(<<ExpressionStatement(
                                        LongArrayFrom(<<Variable(ny, 1)>>, U16Range - 1))>>,
                                   "s"),
                        Statements(<<ExpressionStatement(
                                        LongArrayFrom(<<Variable(ny, 1)>>, U16Range))>>,
                                   "s")}
          /\ processed = ProcPartial
    /\ Entered
    /\ peer = NoPeer
    /\ NotParsing

\* The statement at position i is the bare literal that continues, at
\* distance i - first, the literal run starting at position first.
InRun(first, i) ==
    /\ VAt(tree.content, first).kind = "Expression"
    /\ VAt(tree.content, first).expr.kind = "Number"
    /\ VAt(tree.content, i) =
         ExpressionStatement(Number(VAt(tree.content, first).expr.num + (i - first)))

\* Last position of the run of consecutive increasing literals that starts
\* at the next statement (cursor when there is none).
RunEnd ==
    LET first == cursor + 1
        n == VLen(tree.content)
    IN  IF first > n THEN cursor
        ELSE IF \A i \in first..n : InRun(first, i) THEN n
        ELSE (CHOOSE i \in first..n :
                 ~InRun(first, i) /\ \A j \in first..(i - 1) : InRun(first, j)) - 1

\* Number of next statements that LowerLiteralRun lowers at once: the run
\* ahead, cut where the pool would reach the limit of a u16 index; 0 unless
\* the run is long and none of its numbers is in the pool yet.
RunAhead ==
    LET len == RunEnd - cursor
        room == U16Range - VLen(constants_cache)
        k == IF len <= room THEN len ELSE room
        lowest == VAt(tree.content, cursor + 1).expr.num
    IN  IF len >= RunMin /\ k >= RunMin
           /\ \A c \in 1..Len(constants_cache) :
                 \A i \in 1..Len(constants_cache[c]) :
                    \/ constants_cache[c][i].kind # "Scalar"
                    \/ constants_cache[c][i].num < lowest
        THEN k ELSE 0

\* One iteration of the loop of compile_to_instructions for the top-level
\* list; an error ends compile, with what the failing statement pushed
\* before it failed still on the Vec.
LowerStatement ==
    /\ pc = "lowering"
    /\ cursor < VLen(tree.content)
    /\ RunAhead = 0
    /\ LET Step(r) ==
               /\ constants_cache' = r.ctx.constants_cache
               /\ names_cache' = r.ctx.names_cache
               /\ instructions' = VConcat(instructions, r.out)
               /\ IF r.err = NoErr
                  THEN /\ cursor' = cursor + 1
                       /\ UNCHANGED <<pc, result>>
                  ELSE /\ pc' = "done"
                       /\ result' = Failure(r.err)
                       /\ UNCHANGED cursor
       IN  Step(Statement_compile_instructions(VAt(tree.content, cursor + 1), processed,
                                               Context(constants_cache, names_cache)))
    /\ UNCHANGED <<tree, processed, peer>>
    /\ UNCHANGED parser

\* RunAhead iterations of the same loop in one step.  Each statement of the
\* run is a bare number that is not in the pool, so each iteration pushes
\* EndStatement, appends the number to the pool and pushes Push(its index).
LowerLiteralRun ==
    /\ pc = "lowering"
    /\ RunAhead > 0
    /\ LET k == RunAhead
           base == VLen(constants_cache)
           lowest == VAt(tree.content, cursor + 1).expr.num
       IN  /\ constants_cache' =
                VConcat(constants_cache,
                        AsSeq([j \in 1..k |-> ConstScalar(lowest + j - 1)]))
           /\ instructions' =
                VConcat(instructions,
                        AsSeq([m \in 1..(2 * k) |->
                            IF m % 2 = 1 THEN EndStatement
                            ELSE Push(base + (m \div 2) - 1)]))
           /\ cursor' = cursor + k
    /\ UNCHANGED <<tree, processed, pc, names_cache, result, peer>>
    /\ UNCHANGED parser

\* The end of the top-level compile_to_instructions and the rest of
\* Statements::compile.
Assemble ==
    /\ pc = "lowering"
    /\ cursor = VLen(tree.content)
    /\ LET f == FinishInstructions(instructions, tree.source,
                                   Context(constants_cache, names_cache))
       IN  IF f.err # NoErr
           THEN /\ result' = Failure(f.err)
                /\ constants_cache' = f.ctx.constants_cache
           ELSE LET compiled == Assembled(f.val, f.ctx, processed) IN
                /\ result' = Ok(compiled)
                /\ constants_cache' = compiled.constants_cache
    /\ pc' = "done"
    /\ UNCHANGED <<tree, processed, cursor, instructions, names_cache, peer>>
    /\ UNCHANGED parser

Next == LowerStatement \/ Assemble

Spec == Init /\ [][Next]_vars

UnmappedSpec == UnmappedInit /\ [][Next]_vars

CapacityNext == LowerStatement \/ LowerLiteralRun \/ Assemble

CapacitySpec == CapacityInit /\ [][CapacityNext]_vars

FailureSpec == FailureInit /\ [][CapacityNext]_vars

TypeOK ==
    /\ pc \in {"lowering", "done"}
    /\ cursor \in 0..VLen(tree.content)
    /\ (pc = "done") = (result # NoResult)

\* ------------------------------------------------------------------------
\* The pools on their own
\* ------------------------------------------------------------------------
\* A second specification calls Context::add_constant or Context::add_name
\* repeatedly on one context, as the lowering does, starting from an empty
\* pool or from a pool that lowering has filled close to the limit of a u16
\* index.  Every caller propagates an error with `?`, so no call follows a
\* failed one.  `result` records the last call: the pool length before it,
\* whether an equal value was already in the pool, and what it returned.

PoolConstants == {ConstScalar(1), ConstScalar(2), ConstString("a"), ConstBoolean(TRUE)}

PoolNames == {nx, nX, nfoo, nFoo, nBad}

\* The names a and b are equal up to the case of their ASCII letters.
SameUpToCase(a, b) ==
    /\ Len(a) = Len(b)
    /\ \A i \in 1..Len(a) :
          \/ a[i] = b[i]
          \/ \E k \in 1..26 : {a[i], b[i]} = {UpperChars[k], LowerChars[k]}

\* Decimal digits of i, five characters.
Digits(i) ==
    <<DigitChars[((i \div 10000) % 10) + 1], DigitChars[((i \div 1000) % 10) + 1],
      DigitChars[((i \div 100) % 10) + 1], DigitChars[((i \div 10) % 10) + 1],
      DigitChars[(i % 10) + 1]>>

\* A constant pool of p distinct numbers and a name pool of p distinct
\* identifiers, as left by lowering p distinct literals or variables.
FilledConstants(p) == Vec(AsSeq([i \in 1..p |-> ConstScalar(BulkBase + i)]))
FilledNames(p) == Vec(AsSeq([i \in 1..p |-> <<"v">> \o Digits(i)]))

Called(pool, before, present, r) ==
    [status |-> "called", pool |-> pool, before |-> before, present |-> present,
     after |-> IF pool = "names" THEN VLen(r.ctx.names_cache)
               ELSE VLen(r.ctx.constants_cache),
     err |-> r.err, idx |-> r.idx]

PoolInit ==
    /\ tree = Statements(<<>>, "s")
    /\ processed = ProcFull
    /\ cursor = 0
    /\ instructions = Vec(<<>>)
    /\ result = NoResult
    /\ peer = NoPeer
    /\ \/ /\ pc = "constants"
          /\ constants_cache \in {Vec(<<>>), FilledConstants(U16Range - 1)}
          /\ names_cache = Vec(<<>>)
       \/ /\ pc = "names"
          /\ constants_cache = Vec(<<>>)
          /\ names_cache \in {Vec(<<>>), FilledNames(U16Range - 1)}
    /\ NotParsing

\* ctx.add_constant(constant)
AddConstant ==
    /\ pc = "constants"
    /\ \E constant \in PoolConstants :
         LET r == add_constant(Context(constants_cache, names_cache), constant)
             present == Position(constants_cache, constant) >= 0
         IN  /\ constants_cache' = r.ctx.constants_cache
             /\ names_cache' = r.ctx.names_cache
             /\ result' = Called("constants", VLen(constants_cache), present, r)
             /\ pc' = IF r.err = NoErr THEN pc ELSE "failed"
    /\ UNCHANGED <<tree, processed, cursor, instructions, peer>>
    /\ UNCHANGED parser

\* ctx.add_name(name)
AddName ==
    /\ pc = "names"
    /\ \E name \in PoolNames :
         LET r == add_name(Context(constants_cache, names_cache), name)
             present == \E c \in 1..Len(names_cache) :
                            \E i \in 1..Len(names_cache[c]) :
                               SameUpToCase(names_cache[c][i], name)
         IN  /\ constants_cache' = r.ctx.constants_cache
             /\ names_cache' = r.ctx.names_cache
             /\ result' = Called("names", VLen(names_cache), present, r)
             /\ pc' = IF r.err = NoErr THEN pc ELSE "failed"
    /\ UNCHANGED <<tree, processed, cursor, instructions, peer>>
    /\ UNCHANGED parser

PoolNext == AddConstant \/ AddName

PoolSpec == PoolInit /\ [][PoolNext]_vars

\* ------------------------------------------------------------------------
\* More sources than a file index can number
\* ------------------------------------------------------------------------

\* The path of the i-th of many sources.
FileNumbered(i) == <<"f">> \o Digits(i)

\* One source more than file_index has values: offset 0 is mapped to the
\* last source, whose position does not fit, offset 1 to the one before it,
\* whose position is the largest that fits.
ProcMany ==
    Processed(Vec(AsSeq([i \in 1..(U8Range + 1) |-> FileNumbered(i)])),
              (0 :> [path |-> FileNumbered(U8Range + 1), line |-> 1]) @@
              (1 :> [path |-> FileNumbered(U8Range), line |-> 2]))

\* The trees of Init with two sources or with many.
ManySourcesInit ==
    /\ tree \in SmallTrees
    /\ processed \in {ProcFull, ProcMany}
    /\ Entered
    /\ peer = NoPeer
    /\ NotParsing

ManySourcesSpec == ManySourcesInit /\ [][Next]_vars

\* ------------------------------------------------------------------------
\* Two invocations at the same time
\* ------------------------------------------------------------------------
\* compile borrows its arguments immutably and keeps everything it writes
\* (the Context, the Vec of instructions) in locals, so two calls may run
\* on two threads.  `peer` is then the second call with its own locals; the
\* steps of the two calls interleave in any order.

Invocation(t, p) ==
    [status |-> "invoked", tree |-> t, processed |-> p, pc |-> "lowering",
     cursor |-> 0, instructions |-> Vec(<<>>), constants_cache |-> Vec(<<>>),
     names_cache |-> Vec(<<>>), result |-> NoResult]

\* The calls that run next to the main one: one that succeeds and interns
\* names the main call may intern too, one that fails at once, one that
\* fails after it has filled its pools, one that panics, an empty one.
PeerInvocations ==
    {Invocation(Statements(<<ExpressionStatement(Variable(nX, 0)),
                             AssignGlobal(nx, Number(1), 0)>>, "s"), ProcFull),
     Invocation(Statements(<<ExpressionStatement(Variable(nBad, 0))>>, "s"), ProcFull),
     Invocation(Statements(<<ExpressionStatement(Number(2)),
                             ExpressionStatement(Variable(nBad, 0))>>, "p"), ProcFull),
     Invocation(Statements(<<ExpressionStatement(
                                 Array(<<Number(1), Variable(nx, 1)>>, 0))>>, "s"),
                ProcPartial),
     Invocation(Statements(<<>>, "s"), ProcPartial)}

ConcurrentInit ==
    /\ tree \in {Statements(c, "s") : c \in SeqsUpTo(ShortStatements, MaxStatements)}
    /\ processed \in ProcessedInputs
    /\ Entered
    /\ peer \in PeerInvocations
    /\ NotParsing

\* A peer that lowers with the pools of the main call.
PeerContext_Shared == Context(constants_cache, names_cache)

\* The Context of the peer: the local `ctx` of its own call.
PeerContext == Context(peer.constants_cache, peer.names_cache)

\* One iteration of the loop of compile_to_instructions in the peer.
PeerLowerStatement ==
    /\ peer.status = "invoked"
    /\ peer.pc = "lowering"
    /\ peer.cursor < VLen(peer.tree.content)
    /\ LET Step(r) ==
               peer' = IF r.err = NoErr
                       THEN [peer EXCEPT !.constants_cache = r.ctx.constants_cache,
                                         !.names_cache = r.ctx.names_cache,
                                         !.instructions = VConcat(@, r.out),
                                         !.cursor = @ + 1]
                       ELSE [peer EXCEPT !.constants_cache = r.ctx.constants_cache,
                                         !.names_cache = r.ctx.names_cache,
                                         !.instructions = VConcat(@, r.out),
                                         !.pc = "done",
                                         !.result = Failure(r.err)]
       IN  Step(Statement_compile_instructions(
                    VAt(peer.tree.content, peer.cursor + 1), peer.processed,
                    PeerContext))
    /\ UNCHANGED <<tree, processed, pc, cursor, instructions, constants_cache,
                   names_cache, result>>
    /\ UNCHANGED parser

\* The end of compile_to_instructions and the rest of compile in the peer.
PeerAssemble ==
    /\ peer.status = "invoked"
    /\ peer.pc = "lowering"
    /\ peer.cursor = VLen(peer.tree.content)
    /\ LET Done(f) ==
               peer' = IF f.err # NoErr
                       THEN [peer EXCEPT !.constants_cache = f.ctx.constants_cache,
                                         !.pc = "done",
                                         !.result = Failure(f.err)]
                       ELSE [peer EXCEPT
                                !.constants_cache =
                                    Assembled(f.val, f.ctx, peer.processed).constants_cache,
                                !.names_cache = f.ctx.names_cache,
                                !.pc = "done",
                                !.result = Ok(Assembled(f.val, f.ctx, peer.processed))]
       IN  Done(FinishInstructions(peer.instructions, peer.tree.source, PeerContext))
    /\ UNCHANGED <<tree, processed, pc, cursor, instructions, constants_cache,
                   names_cache, result>>
    /\ UNCHANGED parser

ConcurrentNext == LowerStatement \/ Assemble \/ PeerLowerStatement \/ PeerAssemble

ConcurrentSpec == ConcurrentInit /\ [][ConcurrentNext]_vars

\* ------------------------------------------------------------------------
\* Str::parse (config strings)
\* ------------------------------------------------------------------------
\* parse reads a quoted string from a peekable stream of tokens.  The stream
\* is kept as given, with the number of tokens taken so far: next() takes
\* the token after the taken ones, peek() looks at it, peek_nth(1) at the
\* one behind it.  `pc` is the position in parse: "start" before the first
\* next(), "outer" at the head of the outer loop, "inner" at the head of the
\* inner loop, "newline" at the head of the loop that follows `\n`.

\* Symbols of tokens
DoubleQuote == [symbol |-> "DoubleQuote"]
Whitespace == [symbol |-> "Whitespace"]
Escape == [symbol |-> "Escape"]
Semicolon == [symbol |-> "Semicolon"]
Word(text) == [symbol |-> "Word", text |-> text]

\* Token::to_string, as a sequence of characters.
to_string(token) ==
    CASE token.symbol = "DoubleQuote" -> <<"\"">>
      [] token.symbol = "Whitespace" -> <<" ">>
      [] token.symbol = "Escape" -> <<"\\">>
      [] token.symbol = "Semicolon" -> <<";">>
      [] token.symbol = "Word" -> <<token.text>>

UnexpectedToken(token) ==
    [kind |-> "UnexpectedToken", token |-> token, expected |-> <<DoubleQuote>>]
UnexpectedEOF == [kind |-> "UnexpectedEOF"]

\* Ok(Self(string))
Parsed(str) == [status |-> "ok", str |-> str]

\* Longest token stream that is enumerated.
MaxTokens == 6

TokenStreams ==
    SeqsUpTo({DoubleQuote, Whitespace, Escape, Semicolon, Word("n")}, MaxTokens)

ParseInit ==
    /\ tokens \in TokenStreams
    /\ consumed = 0
    /\ string = <<>>
    /\ pc = "start"
    /\ result = NoResult
    /\ peer = NoPeer
    /\ tree = Statements(<<>>, "s")
    /\ processed = ProcFull
    /\ cursor = 0
    /\ instructions = Vec(<<>>)
    /\ constants_cache = Vec(<<>>)
    /\ names_cache = Vec(<<>>)

\* The first token must be a double quote.
ParseStart ==
    /\ pc = "start"
    /\ IF consumed >= Len(tokens)
       THEN /\ result' = Err(UnexpectedEOF)
            /\ pc' = "done"
            /\ UNCHANGED consumed
       ELSE /\ consumed' = consumed + 1
            /\ IF tokens[consumed + 1] # DoubleQuote
               THEN /\ result' = Err(UnexpectedToken(tokens[consumed + 1]))
                    /\ pc' = "done"
               ELSE /\ pc' = "outer"
                    /\ UNCHANGED result
    /\ string' = <<>>
    /\ UNCHANGED <<tokens, tree, processed, cursor, instructions, constants_cache,
                   names_cache, peer>>

\* One pass through the head of the outer loop: the text of a token other
\* than a double quote is appended; a double quote leads into the inner
\* loop; the end of the stream is an error.
ParseOuter ==
    /\ pc = "outer"
    /\ IF consumed >= Len(tokens)
       THEN /\ result' = Err(UnexpectedEOF)
            /\ pc' = "done"
            /\ UNCHANGED <<consumed, string>>
       ELSE IF tokens[consumed + 1] = DoubleQuote
       THEN /\ pc' = "inner"
            /\ UNCHANGED <<consumed, string, result>>
       ELSE /\ string' = string \o to_string(tokens[consumed + 1])
            /\ consumed' = consumed + 1
            /\ UNCHANGED <<pc, result>>
    /\ UNCHANGED <<tokens, tree, processed, cursor, instructions, constants_cache,
                   names_cache, peer>>

\* An inner loop in which only a second double quote keeps the string open.
InnerStep_QuoteEnds(ts, taken, str) ==
    IF taken + 2 <= Len(ts) /\ ts[taken + 2] = DoubleQuote
    THEN [pc |-> "outer", consumed |-> taken + 2, string |-> str \o <<"\"">>,
          result |-> NoResult]
    ELSE [pc |-> "done", consumed |-> taken + 1, string |-> str, result |-> Parsed(str)]

\* One pass through the inner loop: next() takes the double quote, or the
\* whitespace of the pass before, and the token behind it decides.
InnerStep(ts, taken, str) ==
    LET head == taken + 2
        Go(to, upto, text, res) ==
            [pc |-> to, consumed |-> upto, string |-> text, result |-> res]
    IN  IF head > Len(ts) THEN Go("done", taken + 1, str, Parsed(str))
        ELSE CASE ts[head].symbol = "DoubleQuote" ->
                    Go("outer", taken + 2, str \o <<"\"">>, NoResult)
               [] ts[head].symbol = "Whitespace" ->
                    Go("inner", taken + 1, str, NoResult)
               [] ts[head].symbol = "Escape" ->
                    IF head + 1 > Len(ts)
                    THEN Go("done", taken + 1, str, Panicked)
                    ELSE IF ts[head + 1] = Word("n")
                    THEN Go("newline", taken + 3, str \o <<"\n">>, NoResult)
                    ELSE Go("outer", taken + 1, str, NoResult)
               [] OTHER -> Go("done", taken + 1, str, Parsed(str))

ParseInner ==
    /\ pc = "inner"
    /\ LET r == InnerStep(tokens, consumed, string)
       IN  /\ pc' = r.pc
           /\ consumed' = r.consumed
           /\ string' = r.string
           /\ result' = r.result
    /\ UNCHANGED <<tokens, tree, processed, cursor, instructions, constants_cache,
                   names_cache, peer>>

\* One pass through the loop behind `\n`: whitespace is taken, a double
\* quote opens the next line of the string, any other token ends the string,
\* the end of the stream is an error.
ParseNewline ==
    /\ pc = "newline"
    /\ IF consumed >= Len(tokens)
       THEN /\ result' = Err(UnexpectedEOF)
            /\ pc' = "done"
            /\ UNCHANGED consumed
       ELSE CASE tokens[consumed + 1].symbol = "Whitespace" ->
                   /\ consumed' = consumed + 1
                   /\ UNCHANGED <<pc, result>>
              [] tokens[consumed + 1].symbol = "DoubleQuote" ->
                   /\ consumed' = consumed + 1
                   /\ pc' = "outer"
                   /\ UNCHANGED result
              [] OTHER ->
                   /\ result' = Parsed(string)
                   /\ pc' = "done"
                   /\ UNCHANGED consumed
    /\ UNCHANGED <<string, tokens, tree, processed, cursor, instructions,
                   constants_cache, names_cache, peer>>

ParseNext == ParseStart \/ ParseOuter \/ ParseInner \/ ParseNewline

ParseSpec == ParseInit /\ [][ParseNext]_vars

\* ------------------------------------------------------------------------
\* Properties
\* ------------------------------------------------------------------------

Succeeded == pc = "done" /\ result.status = "ok"

\* True when the Vec has no two equal entries.
NoDuplicates(v) == Cardinality(VRange(v)) = VLen(v)

\* C1: in every Compiled that compile returns, entry_point is the index of
\* the last entry of the constant pool and that entry is the Code constant
\* holding the top-level instructions, whatever the size of the pool.
C1_EntryPointIsLast ==
    Succeeded =>
        LET compiled == result.compiled
            entry == VAt(compiled.constants_cache, compiled.entry_point + 1)
        IN  /\ compiled.entry_point = VLen(compiled.constants_cache) - 1
            /\ entry.kind = "Code"
            /\ entry.code.contents = instructions

\* C4: an Array expression of 65,536 or more elements makes compile fail
\* with ListTooLong, all elements literal or not, and one of 65,535
\* elements does not.
C4_LongArrayRejected ==
    (pc = "done" /\ VLen(tree.content) = 1
        /\ VAt(tree.content, 1).expr.kind = "Array") =>
        LET n == VLen(VAt(tree.content, 1).expr.items) IN
        /\ n >= U16Range => result = Err(ListTooLong)
        /\ n = U16Range - 1 => result # Err(ListTooLong)

\* C5: no Compiled that compile returns has a constant pool or a name pool
\* of more than 65,536 entries.
C5_PoolsWithinCapacity ==
    Succeeded =>
        /\ VLen(result.compiled.constants_cache) <= U16Range
        /\ VLen(result.compiled.names_cache) <= U16Range

\* ------------------------------------------------------------------------
\* C2: deduplication
\* ------------------------------------------------------------------------

\* A literal at top level and the same literal inside a nested block, both
\* with the source string of the block.
SharedLiteralTree ==
    Statements(<<ExpressionStatement(Number(1)),
                 ExpressionStatement(
                     Code(Statements(<<ExpressionStatement(Number(1))>>, "s")))>>, "s")

\* C2: no pool ever holds two equal entries, during lowering and in the
\* Compiled that is returned, entry-point Code included; a literal used at
\* top level and inside a nested block is pushed with one and the same
\* index, and the nested block and the program share the index of their
\* equal source strings.
C2_PoolsDeduplicated ==
    /\ NoDuplicates(constants_cache)
    /\ NoDuplicates(names_cache)
    /\ Succeeded =>
         /\ NoDuplicates(result.compiled.constants_cache)
         /\ NoDuplicates(result.compiled.names_cache)
    /\ (Succeeded /\ tree = SharedLiteralTree) =>
         LET pool == result.compiled.constants_cache
             top == VAt(pool, result.compiled.entry_point + 1).code
             nested == VAt(pool, VAt(top.contents, 4).idx + 1).code
         IN  /\ VAt(top.contents, 2).idx = VAt(nested.contents, 2).idx
             /\ VAt(pool, VAt(top.contents, 2).idx + 1) = ConstScalar(1)
             /\ nested.source_string_index = top.source_string_index

\* The program with the shared literal has been compiled: its pool holds
\* the number, the source string, the nested Code and the entry point.
C2_SharedLiteralCompiled ==
    /\ Succeeded
    /\ tree = SharedLiteralTree
    /\ VLen(result.compiled.constants_cache) = 4

\* ------------------------------------------------------------------------
\* C3: capacity boundary of a pool
\* ------------------------------------------------------------------------

\* C3: a call of add_constant or add_name with a value that is already in
\* the pool returns an index and leaves the pool as it is; with a new value
\* and fewer than 65,536 entries in the pool it returns the old length as
\* the index, so the 65,536th distinct value gets index 65,535; with a new
\* value and 65,536 entries it fails with ListTooLong.  (A name the grammar
\* rejects fails with InvalidName before the pool is touched.)
C3_CapacityBoundary ==
    (result.status = "called" /\ result.err.kind # "InvalidName") =>
        /\ result.present =>
             /\ result.err = NoErr
             /\ result.idx < result.before
             /\ result.after = result.before
        /\ (~result.present /\ result.before < U16Range) =>
             /\ result.err = NoErr
             /\ result.idx = result.before
             /\ result.after = result.before + 1
        /\ (~result.present /\ result.before >= U16Range) =>
             result.err = ListTooLong

\* The 65,537th distinct value has been refused, after the 65,536th was
\* accepted.
C3_OverflowRefused ==
    /\ pc = "failed"
    /\ result.status = "called"
    /\ result.before = U16Range
    /\ ~result.present
    /\ result.err = ListTooLong

\* ------------------------------------------------------------------------
\* What a tree asks of the compiler, read off the tree alone
\* ------------------------------------------------------------------------

\* The name has an upper-case ASCII letter.
HasUpper(name) == \E i \in DOMAIN name : name[i] \in Range(UpperChars)

RECURSIVE NamesOfExpression(_)
RECURSIVE NamesOfStatements(_)

\* The names an expression uses as variable or command, constant nular
\* commands aside, with the names of its nested blocks.
NamesOfExpression(e) ==
    CASE e.kind = "Variable" -> {e.name}
      [] e.kind = "NularCommand" -> IF is_constant(e.name) THEN {} ELSE {e.name}
      [] e.kind = "UnaryCommand" -> {e.name} \cup NamesOfExpression(e.arg)
      [] e.kind = "BinaryCommand" ->
           {e.name} \cup NamesOfExpression(e.lhs) \cup NamesOfExpression(e.rhs)
      [] e.kind = "Array" -> UNION {NamesOfExpression(x) : x \in VRange(e.items)}
      [] e.kind = "Code" -> NamesOfStatements(e.statements)
      [] OTHER -> {}

\* The names a statement list uses, assignment targets included.
NamesOfStatements(b) ==
    UNION {NamesOfExpression(s.expr) \cup
           (IF s.kind = "Expression" THEN {} ELSE {s.name}) : s \in VRange(b.content)}

RECURSIVE Foldable(_)

\* The expression reduces to a constant: a literal, a block, a constant
\* nular command, or an array of such.
Foldable(e) ==
    CASE e.kind \in {"Code", "String", "Number", "Boolean"} -> TRUE
      [] e.kind = "Array" -> \A x \in VRange(e.items) : Foldable(x)
      [] e.kind = "NularCommand" -> is_constant(e.name)
      [] OTHER -> FALSE

RECURSIVE Shape(_)
RECURSIVE ShapeOfItems(_, _)

\* The opcodes expected for an expression: one Push when it folds, else the
\* opcodes of its operands in order followed by its own.
Shape(e) ==
    IF Foldable(e) THEN <<"Push">>
    ELSE CASE e.kind = "Array" -> ShapeOfItems(e.items, VLen(e.items)) \o <<"MakeArray">>
           [] e.kind = "NularCommand" -> <<"CallNular">>
           [] e.kind = "UnaryCommand" -> Shape(e.arg) \o <<"CallUnary">>
           [] e.kind = "BinaryCommand" -> Shape(e.lhs) \o Shape(e.rhs) \o <<"CallBinary">>
           [] e.kind = "Variable" -> <<"GetVariable">>

\* The opcodes expected for the first n elements of a list, in order.
ShapeOfItems(items, n) ==
    IF n = 0 THEN <<>> ELSE ShapeOfItems(items, n - 1) \o Shape(VAt(items, n))

\* The opcodes of a Vec of instructions.
Ops(v) == AsSeq([i \in 1..VLen(v) |-> VAt(v, i).op])

\* ------------------------------------------------------------------------
\* C6: names are case-folded
\* ------------------------------------------------------------------------

\* foo is read under one casing and assigned under another.
FooTree == Statements(<<AssignLocal(nFoo, Variable(nfoo, 0), 0)>>, "s")

\* count is a variable and, as Count, the command applied to it.
CountTree ==
    Statements(<<ExpressionStatement(UnaryCommand(nCount, Variable(ncount, 0), 0))>>, "s")

\* C6: in every Compiled no two entries of the name pool are equal up to
\* letter case, every entry is free of upper-case letters, is accepted by
\* the grammar and is, up to case, a name of the tree, and every name of the
\* tree has its entry; Foo and foo, and count and Count, get one entry and
\* the same index in both instructions that use them.
C6_NamesCaseFolded ==
    Succeeded =>
        LET names == result.compiled.names_cache
            used == NamesOfStatements(tree)
        IN  /\ \A i, j \in 1..VLen(names) :
                  SameUpToCase(VAt(names, i), VAt(names, j)) => i = j
            /\ \A i \in 1..VLen(names) :
                  /\ ~HasUpper(VAt(names, i))
                  /\ is_valid_command(VAt(names, i))
                  /\ \E u \in used : SameUpToCase(u, VAt(names, i))
            /\ \A u \in used : \E i \in 1..VLen(names) : SameUpToCase(u, VAt(names, i))
            /\ tree = FooTree =>
                  /\ names = Vec(<<nfoo>>)
                  /\ VAt(instructions, 2).idx = 0
                  /\ VAt(instructions, 3).idx = 0
            /\ tree = CountTree =>
                  /\ names = Vec(<<ncount>>)
                  /\ VAt(instructions, 2).idx = 0
                  /\ VAt(instructions, 3).idx = 0

\* The program that uses Foo and foo has been compiled to a name pool of
\* one entry.
C6_FooCompiled ==
    /\ Succeeded
    /\ tree = FooTree
    /\ VLen(result.compiled.names_cache) = 1

\* ------------------------------------------------------------------------
\* C7: an array folds as a whole or not at all
\* ------------------------------------------------------------------------

\* C7: for a program that is one bare Array expression and compiles, the
\* instructions are EndStatement followed by one Push of a Constant::Array
\* of as many items when every element folds, and otherwise by the lowering
\* of each element in order and one MakeArray whose count is the number of
\* elements; the array itself is then never pushed as a constant.
C7_ArrayFoldOrLower ==
    (/\ Succeeded
     /\ VLen(tree.content) = 1
     /\ VAt(tree.content, 1).kind = "Expression"
     /\ VAt(tree.content, 1).expr.kind = "Array") =>
        LET a == VAt(tree.content, 1).expr
            n == VLen(instructions)
            pool == result.compiled.constants_cache
        IN  /\ Ops(instructions) = <<"EndStatement">> \o Shape(a)
            /\ Foldable(a) =>
                  /\ n = 2
                  /\ VAt(pool, VAt(instructions, 2).idx + 1).kind = "Array"
                  /\ VLen(VAt(pool, VAt(instructions, 2).idx + 1).items) = VLen(a.items)
            /\ ~Foldable(a) =>
                  /\ VAt(instructions, n).op = "MakeArray"
                  /\ VAt(instructions, n).count = VLen(a.items)
                  /\ n >= 2 + VLen(a.items)

\* The array [1, x] has been lowered to Push, GetVariable, MakeArray.
C7_MixedArrayLowered ==
    /\ Succeeded
    /\ tree = Statements(<<ExpressionStatement(
                              Array(<<Number(1), Variable(nx, 0)>>, 1))>>, "s")
    /\ VLen(instructions) = 4
    /\ VAt(instructions, 4).op = "MakeArray"

\* ------------------------------------------------------------------------
\* The steps of lowering that can fail
\* ------------------------------------------------------------------------
\* The steps are read from the tree alone, in the order in which compile
\* takes them:
\*   name      a name is normalised; val is the name as written
\*   span      a span is resolved to a SourceInfo; val is the offset
\*   length    the length of an array that does not fold is converted to a
\*             u16; val is the length
\*   constant  a constant is interned; val stands for the constant

\* What stands for the constant an expression folds to: the literal, the
\* block as a tree, the folded name, the elements of an array without its
\* span.
RECURSIVE ConstantKey(_)
ConstantKey(e) ==
    CASE e.kind = "Array" ->
           [kind |-> "Array",
            items |-> [i \in 1..VLen(e.items) |-> ConstantKey(VAt(e.items, i))]]
      [] e.kind = "NularCommand" ->
           [kind |-> "NularCommand", name |-> to_ascii_lowercase(e.name)]
      [] OTHER -> e

FailStep(kind, val) == [step |-> kind, val |-> val]

\* The last element that the attempt to fold an array looks at: the first
\* one that does not fold, the last one when all fold.
AttemptEnd(items) ==
    LET n == VLen(items) IN
    IF \A i \in 1..n : Foldable(VAt(items, i)) THEN n
    ELSE CHOOSE i \in 1..n :
            /\ ~Foldable(VAt(items, i))
            /\ \A j \in 1..(i - 1) : Foldable(VAt(items, j))

RECURSIVE AttemptSteps(_)
RECURSIVE AttemptItems(_, _, _)
RECURSIVE LoweringSteps(_)
RECURSIVE LoweringItems(_, _, _)
RECURSIVE ContentSteps(_, _, _)

\* The steps of a statement: those of its expression, then the target name
\* and the span of an assignment.
StatementSteps(st) ==
    LoweringSteps(st.expr) \o
    (IF st.kind = "Expression" THEN <<>>
     ELSE <<FailStep("name", st.name), FailStep("span", st.loc)>>)

\* The steps of the statements lo..hi of a list.
ContentSteps(content, lo, hi) ==
    IF lo > hi THEN <<>>
    ELSE IF lo = hi THEN StatementSteps(VAt(content, lo))
    ELSE ContentSteps(content, lo, (lo + hi) \div 2) \o
         ContentSteps(content, (lo + hi) \div 2 + 1, hi)

\* The steps of a block: its statements, then its source string.
BlockSteps(b) ==
    ContentSteps(b.content, 1, VLen(b.content)) \o
    <<FailStep("constant", String(b.source))>>

\* The steps of the attempt to fold an expression: a block is lowered, a
\* constant nular command is normalised, the elements of an array are
\* tried in order up to the first that does not fold.
AttemptSteps(e) ==
    CASE e.kind = "Code" -> BlockSteps(e.statements)
      [] e.kind = "Array" -> AttemptItems(e.items, 1, AttemptEnd(e.items))
      [] e.kind = "NularCommand" ->
           IF is_constant(e.name) THEN <<FailStep("name", e.name)>> ELSE <<>>
      [] OTHER -> <<>>

AttemptItems(items, lo, hi) ==
    IF lo > hi THEN <<>>
    ELSE IF lo = hi THEN AttemptSteps(VAt(items, lo))
    ELSE AttemptItems(items, lo, (lo + hi) \div 2) \o
         AttemptItems(items, (lo + hi) \div 2 + 1, hi)

\* The steps of lowering an expression: the attempt to fold it, then the
\* constant when it folds; else the length and the elements of an array or
\* the operands of a command, then the name and the span of its own
\* instruction.
LoweringSteps(e) ==
    LET Own == <<FailStep("name", e.name), FailStep("span", e.loc)>> IN
    AttemptSteps(e) \o
    (IF Foldable(e) THEN <<FailStep("constant", ConstantKey(e))>>
     ELSE CASE e.kind = "Array" ->
                 <<FailStep("length", VLen(e.items))>> \o
                 LoweringItems(e.items, 1, VLen(e.items)) \o
                 <<FailStep("span", e.loc)>>
            [] e.kind = "UnaryCommand" -> LoweringSteps(e.arg) \o Own
            [] e.kind = "BinaryCommand" ->
                 LoweringSteps(e.lhs) \o LoweringSteps(e.rhs) \o Own
            [] OTHER -> Own)

LoweringItems(items, lo, hi) ==
    IF lo > hi THEN <<>>
    ELSE IF lo = hi THEN LoweringSteps(VAt(items, lo))
    ELSE LoweringItems(items, lo, (lo + hi) \div 2) \o
         LoweringItems(items, (lo + hi) \div 2 + 1, hi)

\* The steps with the number of the top-level statement they belong to.
StepsAt(steps, k) ==
    [i \in 1..Len(steps) |-> [step |-> steps[i].step, val |-> steps[i].val, at |-> k]]

RECURSIVE ProgramContentSteps(_, _, _)
ProgramContentSteps(content, lo, hi) ==
    IF lo > hi THEN <<>>
    ELSE IF lo = hi THEN StepsAt(StatementSteps(VAt(content, lo)), lo)
    ELSE ProgramContentSteps(content, lo, (lo + hi) \div 2) \o
         ProgramContentSteps(content, (lo + hi) \div 2 + 1, hi)

\* The steps of a whole program; its source string comes after the last
\* statement.
ProgramSteps(t) ==
    ProgramContentSteps(t.content, 1, VLen(t.content)) \o
    StepsAt(<<FailStep("constant", String(t.source))>>, VLen(t.content) + 1)

\* The constants interned by the steps before step i.
ConstantsBefore(steps, i) ==
    {steps[j].val : j \in {k \in 1..(i - 1) : steps[k].step = "constant"}}

\* Step i fails: the grammar rejects the name, the span is not mapped, the
\* length does not fit a u16, or the constant is not among the 65,536 or
\* more different constants interned before it (which takes more than
\* 65,536 steps).
StepBreaks(steps, i, p) ==
    CASE steps[i].step = "name" -> ~is_valid_command(to_ascii_lowercase(steps[i].val))
      [] steps[i].step = "span" -> steps[i].val \notin DOMAIN p.mapping
      [] steps[i].step = "length" -> steps[i].val >= U16Range
      [] steps[i].step = "constant" ->
           /\ i > U16Range
           /\ steps[i].val \notin ConstantsBefore(steps, i)
           /\ Cardinality(ConstantsBefore(steps, i)) >= U16Range

\* The position of the first failing step, 0 when no step fails.
FirstBreak(steps, p) ==
    IF \A i \in 1..Len(steps) : ~StepBreaks(steps, i, p) THEN 0
    ELSE CHOOSE k \in 1..Len(steps) :
            /\ StepBreaks(steps, k, p)
            /\ \A j \in 1..(k - 1) : ~StepBreaks(steps, j, p)

\* What compile ends with when the step fails.
OutcomeOf(x) ==
    CASE x.step = "name" -> Err(InvalidName(x.val))
      [] x.step = "span" -> Panicked
      [] OTHER -> Err(ListTooLong)

\* The position of the first name step with a name the grammar rejects, 0
\* when there is none.
FirstRejected(steps) ==
    LET Rejected(i) ==
            /\ steps[i].step = "name"
            /\ ~is_valid_command(to_ascii_lowercase(steps[i].val))
    IN  IF \A i \in 1..Len(steps) : ~Rejected(i) THEN 0
        ELSE CHOOSE k \in 1..Len(steps) :
                /\ Rejected(k)
                /\ \A j \in 1..(k - 1) : ~Rejected(j)

\* ------------------------------------------------------------------------
\* C8: names the grammar rejects
\* ------------------------------------------------------------------------

\* The names of the tree that the grammar rejects after case folding, as
\* written.
BadNames(t) == {u \in NamesOfStatements(t) : ~is_valid_command(to_ascii_lowercase(u))}

\* C8 as stated: a compile of a tree with a name the grammar rejects ends
\* with InvalidName carrying that name as written.
C8_InvalidNameAlwaysReported ==
    pc = "done" =>
        LET Reported(steps) ==
                FirstRejected(steps) # 0 =>
                    /\ result.status = "err"
                    /\ result.error.kind = "InvalidName"
                    /\ \E i \in 1..Len(steps) :
                          /\ steps[i].step = "name"
                          /\ steps[i].val = result.error.name
                          /\ StepBreaks(steps, i, processed)
        IN  Reported(ProgramSteps(tree))

\* C8, amended: a compile of a tree with a name the grammar rejects never
\* succeeds.  When no step fails before the first such name in lowering
\* order, it returns InvalidName carrying that name as written, never its
\* folded form; it returns no other InvalidName.  It returns ListTooLong
\* only when a length or a constant fails before that name, and it panics
\* only when a span before that name has no mapping.
C8_InvalidNameUnlessEarlierFailure ==
    pc = "done" =>
        LET Judge(steps, r) ==
                LET Earlier(kinds) ==
                        \E j \in 1..(r - 1) :
                           steps[j].step \in kinds /\ StepBreaks(steps, j, processed)
                IN  r # 0 =>
                      /\ result.status # "ok"
                      /\ ~Earlier({"span", "length", "constant"}) =>
                            result = Err(InvalidName(steps[r].val))
                      /\ (result.status = "err" /\ result.error.kind = "InvalidName") =>
                            /\ result.error.name = steps[r].val
                            /\ ~Earlier({"span", "length", "constant"})
                      /\ result = Err(ListTooLong) => Earlier({"length", "constant"})
                      /\ result = Panicked => Earlier({"span"})
            Find(steps) == Judge(steps, FirstRejected(steps))
        IN  Find(ProgramSteps(tree))

\* A Unary-Command with a rejected name has been refused with the name as
\* written.
C8_UnaryCommandRefused ==
    /\ pc = "done"
    /\ tree = Statements(<<ExpressionStatement(UnaryCommand(nBad, Number(1), 0))>>, "s")
    /\ result = Err(InvalidName(nBad))

\* ------------------------------------------------------------------------
\* C9: x = 1 + 2
\* ------------------------------------------------------------------------

SumTree ==
    Statements(<<AssignGlobal(nx, BinaryCommand(nPlus, Number(1), Number(2), 1), 0)>>, "s")

\* EndStatement, Push(index of 1), Push(index of 2), CallBinary(index of +),
\* AssignTo(index of x), the indices read in the pools given.
SumInstructions(code, pool, names) ==
    /\ Ops(code) = <<"EndStatement", "Push", "Push", "CallBinary", "AssignTo">>
    /\ VAt(pool, VAt(code, 2).idx + 1) = ConstScalar(1)
    /\ VAt(pool, VAt(code, 3).idx + 1) = ConstScalar(2)
    /\ VAt(names, VAt(code, 4).idx + 1) = nPlus
    /\ VAt(names, VAt(code, 5).idx + 1) = nx

\* C9 as stated: the instructions are as listed, the constant pool is
\* [1, 2] and the name pool is [+, x].
C9_SumPoolIsOneTwo ==
    (Succeeded /\ tree = SumTree) =>
        LET compiled == result.compiled IN
        /\ SumInstructions(instructions, compiled.constants_cache, compiled.names_cache)
        /\ compiled.constants_cache = Vec(<<ConstScalar(1), ConstScalar(2)>>)
        /\ compiled.names_cache = Vec(<<nPlus, nx>>)

\* C9, amended: the instructions are as listed and the name pool is [+, x];
\* the constant pool is [1, 2, the source string, the entry-point Code], the
\* Code holding the listed instructions and the index of the source string,
\* and entry_point is 3.
C9_SumCompiled ==
    (Succeeded /\ tree = SumTree) =>
        LET compiled == result.compiled IN
        /\ SumInstructions(instructions, compiled.constants_cache, compiled.names_cache)
        /\ compiled.constants_cache =
              Vec(<<ConstScalar(1), ConstScalar(2), ConstString(tree.source),
                    ConstCode(Instructions(instructions, 2))>>)
        /\ compiled.entry_point = 3
        /\ compiled.names_cache = Vec(<<nPlus, nx>>)
        /\ VAt(instructions, 4) = CallBinary(0, SourceInfo(1, 1, 7))
        /\ VAt(instructions, 5) = AssignTo(1, SourceInfo(0, 0, 1))

\* x = 1 + 2 has been compiled.
C9_SumDone ==
    /\ Succeeded
    /\ tree = SumTree
    /\ VLen(instructions) = 5

\* ------------------------------------------------------------------------
\* C10: a Code expression is a constant
\* ------------------------------------------------------------------------

\* The opcodes expected for one statement.
StatementOps(s) ==
    <<"EndStatement">> \o Shape(s.expr) \o
    (CASE s.kind = "AssignGlobal" -> <<"AssignTo">>
       [] s.kind = "AssignLocal" -> <<"AssignToLocal">>
       [] s.kind = "Expression" -> <<>>)

RECURSIVE BlockOps(_, _)

\* The opcodes expected for the first n statements of a list.
BlockOps(content, n) ==
    IF n = 0 THEN <<>> ELSE BlockOps(content, n - 1) \o StatementOps(VAt(content, n))

\* { y = 1 }
YBlock == Statements(<<AssignGlobal(ny, Number(1), 0)>>, "n")

\* x = { private X = x }
XBlockTree ==
    Statements(<<AssignGlobal(nx,
                    Code(Statements(<<AssignLocal(nX, Variable(nx, 1), 0)>>, "n")), 0)>>,
               "s")

\* x = 1; { 1 }
OneThenBlockTree ==
    Statements(<<AssignGlobal(nx, Number(1), 0),
                 ExpressionStatement(
                     Code(Statements(<<ExpressionStatement(Number(1))>>, "s")))>>, "s")

\* Every index of the instructions is an index of the pools.
IndicesWithin(code, pool, names) ==
    \A i \in 1..VLen(code) :
        /\ VAt(code, i).op = "Push" => VAt(code, i).idx < VLen(pool)
        /\ VAt(code, i).op \in {"AssignTo", "AssignToLocal", "CallNular", "CallUnary",
                                "CallBinary", "GetVariable"} =>
              VAt(code, i).idx < VLen(names)

\* C10: for a program of one statement whose expression is a Code block,
\* or a unary command applied to one, the instructions hold one Push for
\* the block and none of the block's instructions; the pushed constant is a
\* Code whose opcodes are those of the block and whose indices are indices
\* of the program's pools.  For { y = 1 } it is EndStatement, Push(index of
\* 1), AssignTo(index of y).  A name or number used inside and outside a
\* block has one index.
C10_CodeIsConstant ==
    /\ (/\ Succeeded
        /\ VLen(tree.content) = 1
        /\ \/ VAt(tree.content, 1).expr.kind = "Code"
           \/ /\ VAt(tree.content, 1).expr.kind = "UnaryCommand"
              /\ VAt(tree.content, 1).expr.arg.kind = "Code") =>
           LET st == VAt(tree.content, 1)
               block == IF st.expr.kind = "Code" THEN st.expr.statements
                        ELSE st.expr.arg.statements
               pool == result.compiled.constants_cache
               names == result.compiled.names_cache
               pushed == VAt(pool, VAt(instructions, 2).idx + 1)
           IN  /\ Ops(instructions) = StatementOps(st)
               /\ VAt(instructions, 2).op = "Push"
               /\ pushed.kind = "Code"
               /\ Ops(pushed.code.contents) = BlockOps(block.content, VLen(block.content))
               /\ IndicesWithin(pushed.code.contents, pool, names)
               /\ VAt(pool, pushed.code.source_string_index + 1) = ConstString(block.source)
               /\ block = YBlock =>
                     LET inner == pushed.code.contents IN
                     /\ Ops(inner) = <<"EndStatement", "Push", "AssignTo">>
                     /\ VAt(pool, VAt(inner, 2).idx + 1) = ConstScalar(1)
                     /\ VAt(names, VAt(inner, 3).idx + 1) = ny
    /\ (Succeeded /\ tree = XBlockTree) =>
           LET pool == result.compiled.constants_cache
               inner == VAt(pool, VAt(instructions, 2).idx + 1).code.contents
           IN  /\ result.compiled.names_cache = Vec(<<nx>>)
               /\ VAt(inner, 2).idx = VAt(instructions, 3).idx
               /\ VAt(inner, 3).idx = VAt(instructions, 3).idx
    /\ (Succeeded /\ tree = OneThenBlockTree) =>
           LET pool == result.compiled.constants_cache
               inner == VAt(pool, VAt(instructions, 5).idx + 1).code.contents
           IN  /\ VAt(inner, 2).idx = VAt(instructions, 2).idx
               /\ VAt(pool, VAt(inner, 2).idx + 1) = ConstScalar(1)

\* { y = 1 } as a bare statement has been compiled to EndStatement, Push.
C10_YBlockCompiled ==
    /\ Succeeded
    /\ tree = Statements(<<ExpressionStatement(Code(YBlock))>>, "s")
    /\ VLen(instructions) = 2

\* ------------------------------------------------------------------------
\* C12: concurrent invocations
\* ------------------------------------------------------------------------

\* The pools and instructions that a call running alone holds after it has
\* lowered the first n statements of its list.
AloneAfter(t, p, n) ==
    LowerStatements(t.content, 1, n, p, Context(Vec(<<>>), Vec(<<>>)))

\* C12: with the steps of two invocations interleaved in any order, each
\* one returns what it returns when it runs alone, and while it is lowering
\* its pools and instructions are those it has at the same point when it
\* runs alone: nothing the other invocation interns, and no failure or panic
\* of the other, shows in them.
C12_ResultAsAlone ==
    LET Same(r, cache, names, instrs) ==
            /\ r.err = NoErr
            /\ cache = r.ctx.constants_cache
            /\ names = r.ctx.names_cache
            /\ instrs = Vec(r.out)
    IN  peer.status = "invoked" =>
          /\ pc = "done" => result = compile(tree, processed)
          /\ peer.pc = "done" => peer.result = compile(peer.tree, peer.processed)
          /\ pc = "lowering" =>
                Same(AloneAfter(tree, processed, cursor),
                     constants_cache, names_cache, instructions)
          /\ peer.pc = "lowering" =>
                Same(AloneAfter(peer.tree, peer.processed, peer.cursor),
                     peer.constants_cache, peer.names_cache, peer.instructions)

\* Both invocations have interned the name x into their own pools; the main
\* one has returned a Compiled after the peer filled its pools, and the
\* peer is still lowering.
C12_BothInterned ==
    /\ peer.status = "invoked"
    /\ Succeeded
    /\ peer.pc = "lowering"
    /\ peer.cursor = 1
    /\ Position(peer.names_cache, nx) = 0
    /\ Position(result.compiled.names_cache, nx) = 0
    /\ VLen(result.compiled.constants_cache) >= 3

\* ------------------------------------------------------------------------
\* C13: source information
\* ------------------------------------------------------------------------

RECURSIVE SpansOfExpression(_)
RECURSIVE SpansOfStatements(_)

\* The start offsets of the constructs that are lowered to an instruction
\* with a SourceInfo: variables, commands that are no constants, arrays that
\* do not fold, and all of these inside nested blocks.
SpansOfExpression(e) ==
    CASE e.kind = "Variable" -> {e.loc}
      [] e.kind = "NularCommand" -> IF is_constant(e.name) THEN {} ELSE {e.loc}
      [] e.kind = "UnaryCommand" -> {e.loc} \cup SpansOfExpression(e.arg)
      [] e.kind = "BinaryCommand" ->
           {e.loc} \cup SpansOfExpression(e.lhs) \cup SpansOfExpression(e.rhs)
      [] e.kind = "Array" ->
           (IF Foldable(e) THEN {} ELSE {e.loc}) \cup
           UNION {SpansOfExpression(x) : x \in VRange(e.items)}
      [] e.kind = "Code" -> SpansOfStatements(e.statements)
      [] OTHER -> {}

\* The same for a statement list, with the spans of its assignments.
SpansOfStatements(b) ==
    UNION {SpansOfExpression(st.expr) \cup
           (IF st.kind = "Expression" THEN {} ELSE {st.loc}) : st \in VRange(b.content)}

RECURSIVE SourceInfosOf(_)

\* Every SourceInfo of a constant: those of the instructions of a Code, and
\* those of the elements of an Array.
SourceInfosOf(c) ==
    CASE c.kind = "Code" ->
           {i.src : i \in {j \in VRange(c.code.contents) : j.op \notin {"EndStatement", "Push"}}}
      [] c.kind = "Array" -> UNION {SourceInfosOf(x) : x \in VRange(c.items)}
      [] OTHER -> {}

\* C13: in every Compiled, every SourceInfo of an instruction, at top level
\* or in a nested Code, has a file_index that is a position of file_names
\* and a value of its type, the file at that position is the original file
\* the Processed maps the SourceInfo's offset to, and the offsets found in
\* the artifact are the start offsets of the tree's constructs that carry
\* source information; with more sources than file_index has values, a tree
\* with a span in a source beyond them is not compiled.
C13_FileIndexNamesMappedFile ==
    Succeeded =>
        LET compiled == result.compiled
            infos == UNION {SourceInfosOf(c) : c \in VRange(compiled.constants_cache)}
        IN  /\ \A i \in infos :
                  /\ i.file_index \in 0..(VLen(compiled.file_names) - 1)
                  /\ i.file_index < U8Range
                  /\ i.offset \in DOMAIN processed.mapping
                  /\ VAt(compiled.file_names, i.file_index + 1) =
                        processed.mapping[i.offset].path
            /\ {i.offset : i \in infos} = SpansOfStatements(tree)
            /\ \A loc \in SpansOfStatements(tree) :
                  Position(processed.sources, processed.mapping[loc].path) < U8Range

\* With one source more than file_index has values, a variable in the last
\* source that fits has been compiled with the largest file index.
C13_LargestFileIndex ==
    /\ Succeeded
    /\ processed = ProcMany
    /\ VLen(result.compiled.file_names) = U8Range + 1
    /\ \E c \in VRange(result.compiled.constants_cache) :
          \E i \in SourceInfosOf(c) : i.file_index = U8Range - 1 /\ i.offset = 1

\* x = { private X = x } has been compiled with the assignment mapped to
\* the first file and the variable inside the block to the second.
C13_NestedSpanInSecondFile ==
    /\ Succeeded
    /\ tree = XBlockTree
    /\ \E c \in VRange(result.compiled.constants_cache) :
          /\ c.kind = "Code"
          /\ \E i \in SourceInfosOf(c) : i.file_index = 1 /\ i.offset = 1
          /\ c # VAt(result.compiled.constants_cache, result.compiled.entry_point + 1)

\* ------------------------------------------------------------------------
\* C14: the file-name table
\* ------------------------------------------------------------------------

RECURSIVE SpanOrderOfExpression(_)
RECURSIVE SpanOrderOfItems(_, _)
RECURSIVE SpanOrderOfStatements(_, _)

\* The start offsets of SpansOfExpression in the order in which lowering
\* reaches them: operands before the construct that holds them, left before
\* right.
SpanOrderOfExpression(e) ==
    CASE e.kind = "Variable" -> <<e.loc>>
      [] e.kind = "NularCommand" -> IF is_constant(e.name) THEN <<>> ELSE <<e.loc>>
      [] e.kind = "UnaryCommand" -> SpanOrderOfExpression(e.arg) \o <<e.loc>>
      [] e.kind = "BinaryCommand" ->
           SpanOrderOfExpression(e.lhs) \o SpanOrderOfExpression(e.rhs) \o <<e.loc>>
      [] e.kind = "Array" ->
           SpanOrderOfItems(e.items, VLen(e.items)) \o
           (IF Foldable(e) THEN <<>> ELSE <<e.loc>>)
      [] e.kind = "Code" ->
           SpanOrderOfStatements(e.statements.content, VLen(e.statements.content))
      [] OTHER -> <<>>

SpanOrderOfItems(items, n) ==
    IF n = 0 THEN <<>>
    ELSE SpanOrderOfItems(items, n - 1) \o SpanOrderOfExpression(VAt(items, n))

SpanOrderOfStatements(content, n) ==
    IF n = 0 THEN <<>>
    ELSE SpanOrderOfStatements(content, n - 1) \o
         SpanOrderOfExpression(VAt(content, n).expr) \o
         (IF VAt(content, n).kind = "Expression" THEN <<>> ELSE <<VAt(content, n).loc>>)

RECURSIVE FirstOccurrences(_)

\* The sequence without the repetitions of its elements.
FirstOccurrences(q) ==
    IF q = <<>> THEN <<>>
    ELSE LET front == FirstOccurrences(SubSeq(q, 1, Len(q) - 1))
             last == q[Len(q)]
         IN  IF \E i \in 1..Len(front) : front[i] = last THEN front
             ELSE Append(front, last)

\* The files that the spans of the tree are mapped to, in the order in which
\* lowering first meets them.
FilesEncountered(t, p) ==
    LET spans == SpanOrderOfStatements(t.content, VLen(t.content))
    IN  FirstOccurrences([i \in 1..Len(spans) |-> p.mapping[spans[i]].path])

\* C14: the file names of a Compiled are the files that lowered spans are
\* mapped to, in the order first met, and no other known file.
C14_FileNamesAsEncountered ==
    Succeeded => Flat(result.compiled.file_names) = FilesEncountered(tree, processed)

\* ------------------------------------------------------------------------
\* C15: the first failure ends the compile
\* ------------------------------------------------------------------------

RECURSIVE StepsOfExpression(_)
RECURSIVE StepsOfItems(_, _)
RECURSIVE StepsOfStatements(_, _)

\* The steps of lowering an expression that can fail, in depth-first,
\* left-to-right order: a name is normalised (`name`), a span is resolved
\* (`span`).  Operands come before the name of their command, the name
\* before the span of its instruction.
StepsOfExpression(e) ==
    LET Own == <<[step |-> "name", name |-> e.name], [step |-> "span", loc |-> e.loc]>>
    IN  CASE e.kind = "Variable" -> Own
          [] e.kind = "NularCommand" ->
               IF is_constant(e.name) THEN <<[step |-> "name", name |-> e.name]>> ELSE Own
          [] e.kind = "UnaryCommand" -> StepsOfExpression(e.arg) \o Own
          [] e.kind = "BinaryCommand" ->
               StepsOfExpression(e.lhs) \o StepsOfExpression(e.rhs) \o Own
          [] e.kind = "Array" ->
               StepsOfItems(e.items, VLen(e.items)) \o
               (IF Foldable(e) THEN <<>> ELSE <<[step |-> "span", loc |-> e.loc]>>)
          [] e.kind = "Code" ->
               StepsOfStatements(e.statements.content, VLen(e.statements.content))
          [] OTHER -> <<>>

StepsOfItems(items, n) ==
    IF n = 0 THEN <<>>
    ELSE StepsOfItems(items, n - 1) \o StepsOfExpression(VAt(items, n))

\* The steps of one statement: those of its expression, then the target
\* name and the span of an assignment.
StepsOfStatement(st) ==
    StepsOfExpression(st.expr) \o
    (IF st.kind = "Expression" THEN <<>>
     ELSE <<[step |-> "name", name |-> st.name], [step |-> "span", loc |-> st.loc]>>)

StepsOfStatements(content, n) ==
    IF n = 0 THEN <<>>
    ELSE StepsOfStatements(content, n - 1) \o StepsOfStatement(VAt(content, n))

\* The step fails: the grammar rejects the name, or the span is not mapped.
StepFails(x, p) ==
    IF x.step = "name" THEN ~is_valid_command(to_ascii_lowercase(x.name))
    ELSE x.loc \notin DOMAIN p.mapping

\* C15: a compile in which a step of lowering fails (a name the grammar
\* rejects, a length or a constant beyond the capacity of a u16, a span
\* without mapping) returns the failure of the first such step in
\* depth-first, left-to-right order and no Compiled.  The statements before
\* the failing one have been lowered and none after it: the statement
\* counter is the number of statements before it, the instructions hold
\* the marker of each of these and of the failing statement and no other,
\* and for short programs they start with exactly what lowering only the
\* statements before it leaves.  A compile without a failing step returns
\* a Compiled.
C15_FirstFailureReturned ==
    pc = "done" =>
        LET Marked ==
                Cardinality({i \in 1..VLen(instructions) :
                                VAt(instructions, i) = EndStatement})
            StartsWith(alone) ==
                /\ Len(alone) <= VLen(instructions)
                /\ \A i \in 1..Len(alone) : VAt(instructions, i) = alone[i]
                /\ cursor < VLen(tree.content) =>
                      /\ VLen(instructions) > Len(alone)
                      /\ VAt(instructions, Len(alone) + 1) = EndStatement
            Judge(steps, k) ==
                IF k = 0 THEN result.status = "ok"
                ELSE /\ result = OutcomeOf(steps[k])
                     /\ cursor = steps[k].at - 1
                     /\ Marked = IF steps[k].at <= VLen(tree.content)
                                 THEN cursor + 1 ELSE cursor
                     /\ cursor <= MaxStatements =>
                           StartsWith(AloneAfter(tree, processed, cursor).out)
            Find(steps) == Judge(steps, FirstBreak(steps, processed))
        IN  Find(ProgramSteps(tree))

\* An array of 65,536 elements whose first element is a name the grammar
\* rejects has been refused for its length.
C15_LengthBeforeName ==
    /\ pc = "done"
    /\ result = Err(ListTooLong)
    /\ VLen(tree.content) = 1
    /\ VAt(tree.content, 1).expr.kind = "Array"
    /\ VLen(VAt(tree.content, 1).expr.items) = U16Range
    /\ VAt(VAt(tree.content, 1).expr.items, 1) = Variable(nBad, 0)

\* The second statement of a program failed with InvalidName after the
\* first was lowered into the pools and the instructions.
C15_SecondStatementFailed ==
    /\ pc = "done"
    /\ result.status = "err"
    /\ result.error.kind = "InvalidName"
    /\ cursor = 1
    /\ VLen(tree.content) = 2
    /\ VLen(instructions) >= 2
    /\ VLen(constants_cache) >= 1

\* ------------------------------------------------------------------------
\* C16: Str::parse
\* ------------------------------------------------------------------------

\* The characters a token stands for in the text of a string.
TextOf(token) ==
    CASE token = DoubleQuote -> <<"\"">>
      [] token = Whitespace -> <<" ">>
      [] token = Escape -> <<"\\">>
      [] token = Semicolon -> <<";">>
      [] OTHER -> <<token.text>>

\* First position from i on that holds no whitespace; Len(ts) + 1 if none.
RECURSIVE SkipWhitespace(_, _)
SkipWhitespace(ts, i) ==
    IF i <= Len(ts) /\ ts[i] = Whitespace THEN SkipWhitespace(ts, i + 1) ELSE i

\* The string read from position i on as the claim has it: text up to the
\* closing quote, two adjacent quotes standing for one quote character.
RECURSIVE TextToClosingQuote(_, _, _)
TextToClosingQuote(ts, i, text) ==
    IF i > Len(ts) THEN Err(UnexpectedEOF)
    ELSE IF ts[i] # DoubleQuote THEN TextToClosingQuote(ts, i + 1, text \o TextOf(ts[i]))
    ELSE IF i + 1 <= Len(ts) /\ ts[i + 1] = DoubleQuote
    THEN TextToClosingQuote(ts, i + 2, text \o <<"\"">>)
    ELSE Parsed(text)

\* The string read from position i on with the continuations of the parser:
\* behind a quote and any whitespace, a second quote stands for a quote
\* character, `\n` for a line break after which, behind any whitespace, a
\* quote reopens the string, and any other escape reopens it as text.
RECURSIVE TextWithContinuations(_, _, _)
TextWithContinuations(ts, i, text) ==
    IF i > Len(ts) THEN Err(UnexpectedEOF)
    ELSE IF ts[i] # DoubleQuote
    THEN TextWithContinuations(ts, i + 1, text \o TextOf(ts[i]))
    ELSE LET j == SkipWhitespace(ts, i + 1)
             k == SkipWhitespace(ts, j + 2)
         IN  IF j > Len(ts) THEN Parsed(text)
             ELSE IF ts[j] = DoubleQuote
             THEN TextWithContinuations(ts, j + 1, text \o <<"\"">>)
             ELSE IF ts[j] # Escape THEN Parsed(text)
             ELSE IF j + 1 > Len(ts) THEN Panicked
             ELSE IF ts[j + 1] # Word("n") THEN TextWithContinuations(ts, j, text)
             ELSE IF k > Len(ts) THEN Err(UnexpectedEOF)
             ELSE IF ts[k] = DoubleQuote
             THEN TextWithContinuations(ts, k + 1, text \o <<"\n">>)
             ELSE Parsed(text \o <<"\n">>)

\* What parse returns for a stream according to the reading `Read` of the
\* text behind the opening quote.
Expected(ts, read) ==
    IF ts = <<>> THEN Err(UnexpectedEOF)
    ELSE IF ts[1] # DoubleQuote THEN Err(UnexpectedToken(ts[1]))
    ELSE read

\* C16 as stated: parse returns the text between the opening quote and the
\* closing quote, a pair of adjacent quotes standing for one quote
\* character; UnexpectedToken when the first token is no quote;
\* UnexpectedEOF when the stream ends before or inside the string.
C16_TextBetweenQuotes ==
    pc = "done" => result = Expected(tokens, TextToClosingQuote(tokens, 2, <<>>))

\* C16, amended: parse returns UnexpectedEOF for an empty stream and
\* UnexpectedToken for a first token that is no quote; behind the opening
\* quote it appends the text of every token up to a quote, and a quote ends
\* the string unless what follows it, behind any whitespace, is a second
\* quote (one quote character), `\n` (a line break, then behind any
\* whitespace a reopening quote, the end of the string at another token,
\* UnexpectedEOF at the end of the stream), or another escape (the string
\* goes on with the escape as text); an escape that is the last token behind
\* a closing quote makes parse panic; a stream that ends inside the string
\* gives UnexpectedEOF.
C16_TextWithContinuations ==
    pc = "done" => result = Expected(tokens, TextWithContinuations(tokens, 2, <<>>))

\* "" \n "n" has been parsed to a quote-free text of a line break and n.
C16_TwoLinesParsed ==
    /\ pc = "done"
    /\ tokens = <<DoubleQuote, DoubleQuote, Escape, Word("n"), DoubleQuote, DoubleQuote>>
    /\ result = Parsed(<<"\n">>)

\* ------------------------------------------------------------------------
\* C17: statement markers
\* ------------------------------------------------------------------------

RECURSIVE BlocksOfExpression(_)
RECURSIVE BlocksOfStatements(_)

\* The statement lists of the code blocks inside an expression.
BlocksOfExpression(e) ==
    CASE e.kind = "Code" -> {e.statements} \cup BlocksOfStatements(e.statements)
      [] e.kind = "UnaryCommand" -> BlocksOfExpression(e.arg)
      [] e.kind = "BinaryCommand" -> BlocksOfExpression(e.lhs) \cup BlocksOfExpression(e.rhs)
      [] e.kind = "Array" -> UNION {BlocksOfExpression(x) : x \in VRange(e.items)}
      [] OTHER -> {}

BlocksOfStatements(b) == UNION {BlocksOfExpression(st.expr) : st \in VRange(b.content)}

RECURSIVE CodesOf(_)

\* The Instructions of a Code constant, or of the Code constants among the
\* elements of an Array constant.
CodesOf(c) ==
    CASE c.kind = "Code" -> {c.code}
      [] c.kind = "Array" -> UNION {CodesOf(x) : x \in VRange(c.items)}
      [] OTHER -> {}

\* Number of EndStatement instructions in a Vec of instructions.
Markers(v) == Cardinality({i \in 1..VLen(v) : VAt(v, i).op = "EndStatement"})

\* The instructions are those of the statement list: one EndStatement at
\* the start of the opcodes of each statement, and as many as statements.
LoweredFrom(code, b) ==
    /\ Ops(code.contents) = BlockOps(b.content, VLen(b.content))
    /\ Markers(code.contents) = VLen(b.content)

\* C17: while the top-level list is lowered, the instructions hold one
\* EndStatement per statement lowered so far; in every Compiled, the entry
\* Code and the Code of every nested block hold, for each statement of
\* their list and whatever its kind, one EndStatement followed by the
\* opcodes of the statement, so as many EndStatements as statements, and an
\* empty list gives an empty sequence.
C17_OneMarkerPerStatement ==
    /\ pc = "lowering" => Markers(instructions) = cursor
    /\ Succeeded =>
          LET pool == result.compiled.constants_cache
              codes == UNION {CodesOf(c) : c \in VRange(pool)}
              blocks == {tree} \cup BlocksOfStatements(tree)
          IN  /\ LoweredFrom(VAt(pool, result.compiled.entry_point + 1).code, tree)
              /\ \A b \in blocks : \E code \in codes : LoweredFrom(code, b)
              /\ \A code \in codes : \E b \in blocks : LoweredFrom(code, b)
              /\ \A code \in codes :
                    (\E b \in blocks : b.content = Vec(<<>>) /\ LoweredFrom(code, b))
                        => code.contents = Vec(<<>>)

\* x = 1; { 1 } has been compiled: two markers at top level, before an
\* assignment and before a bare expression, and one in the block.
C17_TwoKindsMarked ==
    /\ Succeeded
    /\ tree = OneThenBlockTree
    /\ LET pool == result.compiled.constants_cache
           top == VAt(pool, result.compiled.entry_point + 1).code.contents
       IN  /\ Ops(top) = <<"EndStatement", "Push", "AssignTo", "EndStatement", "Push">>
           /\ Markers(VAt(pool, VAt(top, 5).idx + 1).code.contents) = 1

\* ------------------------------------------------------------------------
\* C18: order of lowering
\* ------------------------------------------------------------------------

RECURSIVE NameOrderOfExpression(_)
RECURSIVE NameOrderOfItems(_, _)
RECURSIVE NameOrderOfStatements(_, _)

\* The names an expression hands to the name pool, folded to lower case, in
\* depth-first, left-to-right order: those of the operands, left before
\* right, then the name of the command.
NameOrderOfExpression(e) ==
    CASE e.kind = "Variable" -> <<to_ascii_lowercase(e.name)>>
      [] e.kind = "NularCommand" ->
           IF is_constant(e.name) THEN <<>> ELSE <<to_ascii_lowercase(e.name)>>
      [] e.kind = "UnaryCommand" ->
           NameOrderOfExpression(e.arg) \o <<to_ascii_lowercase(e.name)>>
      [] e.kind = "BinaryCommand" ->
           NameOrderOfExpression(e.lhs) \o NameOrderOfExpression(e.rhs) \o
           <<to_ascii_lowercase(e.name)>>
      [] e.kind = "Array" -> NameOrderOfItems(e.items, VLen(e.items))
      [] e.kind = "Code" ->
           NameOrderOfStatements(e.statements.content, VLen(e.statements.content))
      [] OTHER -> <<>>

NameOrderOfItems(items, n) ==
    IF n = 0 THEN <<>>
    ELSE NameOrderOfItems(items, n - 1) \o NameOrderOfExpression(VAt(items, n))

\* The same for the first n statements of a list: the names of the
\* right-hand side, then the target of an assignment.
NameOrderOfStatements(content, n) ==
    IF n = 0 THEN <<>>
    ELSE NameOrderOfStatements(content, n - 1) \o
         NameOrderOfExpression(VAt(content, n).expr) \o
         (IF VAt(content, n).kind = "Expression" THEN <<>>
          ELSE <<to_ascii_lowercase(VAt(content, n).name)>>)

\* The constant of a literal.
ConstantOf(e) ==
    CASE e.kind = "Number" -> ConstScalar(e.num)
      [] e.kind = "String" -> ConstString(e.str)
      [] e.kind = "Boolean" -> ConstBoolean(e.bool)

\* x = y
AssignFromVariableTree == Statements(<<AssignGlobal(nx, Variable(ny, 1), 0)>>, "s")

\* C18: the name pool of every Compiled lists the names of the tree in the
\* order of their first use in depth-first, left-to-right lowering, operands
\* before the name of their command and the right-hand side before the
\* target of its assignment; so in x = y the name y has index 0 and x index
\* 1.  For a program of one binary command the instructions are those of
\* the left operand, those of the right operand and CallBinary, the name of
\* the command follows the names of the operands in the pool, and a literal
\* left operand precedes a different literal right operand in the constant
\* pool.
C18_OperandsBeforeName ==
    /\ Succeeded =>
          Flat(result.compiled.names_cache) =
              FirstOccurrences(NameOrderOfStatements(tree.content, VLen(tree.content)))
    /\ (Succeeded /\ tree = AssignFromVariableTree) =>
          LET top == VAt(result.compiled.constants_cache,
                         result.compiled.entry_point + 1).code.contents
          IN  /\ Ops(top) = <<"EndStatement", "GetVariable", "AssignTo">>
              /\ VAt(top, 2).idx = 0
              /\ VAt(top, 3).idx = 1
    /\ (/\ Succeeded
        /\ VLen(tree.content) = 1
        /\ VAt(tree.content, 1).kind = "Expression"
        /\ VAt(tree.content, 1).expr.kind = "BinaryCommand") =>
          LET e == VAt(tree.content, 1).expr
              pool == result.compiled.constants_cache
              names == result.compiled.names_cache
              top == VAt(pool, result.compiled.entry_point + 1).code.contents
              own == Position(names, to_ascii_lowercase(e.name))
          IN  /\ Ops(top) = <<"EndStatement">> \o Shape(e.lhs) \o Shape(e.rhs) \o
                             <<"CallBinary">>
              /\ VAt(top, VLen(top)).idx = own
              /\ \A i \in 2..(VLen(top) - 1) :
                    VAt(top, i).op = "GetVariable" => VAt(top, i).idx < own
              /\ (Foldable(e.lhs) /\ Foldable(e.rhs) /\ e.lhs # e.rhs) =>
                    /\ VAt(top, 2).idx = 0
                    /\ VAt(top, 3).idx = 1
                    /\ VAt(pool, 1) = ConstantOf(e.lhs)
                    /\ VAt(pool, 2) = ConstantOf(e.rhs)

\* 2 + x has been compiled: the constant 2 is pushed, x is read with name
\* index 0 and + is called with name index 1.
C18_SumOfLiteralAndVariable ==
    /\ Succeeded
    /\ tree = Statements(<<ExpressionStatement(
                              BinaryCommand(nPlus, Number(2), Variable(nx, 0), 1))>>, "s")
    /\ Flat(result.compiled.names_cache) = <<nx, nPlus>>

\* ------------------------------------------------------------------------
\* C19: spans without a mapping
\* ------------------------------------------------------------------------

\* The spans of the tree that carry source information and have no mapping.
UnmappedSpans(t, p) == {loc \in SpansOfStatements(t) : loc \notin DOMAIN p.mapping}

\* C19 as stated: a compile of a tree with a span that needs a SourceInfo
\* and has no mapping ends in a panic; a tree without such a span, as one of
\* literal bare expressions, compiles whatever is mapped.
C19_UnmappedSpanPanics ==
    pc = "done" =>
        /\ UnmappedSpans(tree, processed) # {} => result = Panicked
        /\ (SpansOfStatements(tree) = {} /\ BadNames(tree) = {}) => result.status = "ok"

\* C19, amended: a compile of a tree with a span that needs a SourceInfo
\* and has no mapping never returns a Compiled; it ends in a panic unless a
\* name that the grammar rejects is met first in lowering order, the name of
\* the construct itself included, and then it returns InvalidName with that
\* name; with all names valid it panics.  A tree without a span that needs a
\* SourceInfo, as one of literal bare expressions, compiles whatever is
\* mapped.
C19_PanicUnlessEarlierError ==
    pc = "done" =>
        LET steps == StepsOfStatements(tree.content, VLen(tree.content))
            Unmapped(i) == steps[i].step = "span" /\ StepFails(steps[i], processed)
            Rejected(i) == steps[i].step = "name" /\ StepFails(steps[i], processed)
        IN  /\ UnmappedSpans(tree, processed) # {} =>
                  /\ result.status # "ok"
                  /\ result.status = "err" =>
                        \E i \in 1..Len(steps) :
                            /\ Rejected(i)
                            /\ result.error = InvalidName(steps[i].name)
                            /\ \A j \in 1..(i - 1) : ~Unmapped(j)
                  /\ BadNames(tree) = {} => result = Panicked
            /\ (SpansOfStatements(tree) = {} /\ BadNames(tree) = {}) =>
                  result.status = "ok"

\* With no offset mapped, compile has panicked at the second statement,
\* after a literal statement was lowered.
C19_PanickedWithoutMapping ==
    /\ pc = "done"
    /\ processed = ProcNone
    /\ result = Panicked
    /\ cursor = 1
    /\ VAt(tree.content, 1).expr.kind \in {"Number", "String"}

\* ------------------------------------------------------------------------
\* C20: the fold attempt on an array
\* ------------------------------------------------------------------------
\* A compiler to compare with: it decides with Foldable, from the tree
\* alone, whether an expression folds, builds the constant of an expression
\* that folds, and lowers the elements of an array that does not fold once,
\* with the pools as they were before the array.

RECURSIVE OnceConstant(_, _, _)
RECURSIVE OnceConstants(_, _, _, _)
RECURSIVE OnceExpression(_, _, _)
RECURSIVE OnceElements(_, _, _, _)
RECURSIVE OnceStatements(_, _, _, _)

\* The statements of a block lowered, then its source string interned.
OnceBlock(b, p, ctx) ==
    LET Finish(r) ==
            IF r.err # NoErr
            THEN [ctx |-> r.ctx, err |-> r.err, val |-> Instructions(<<>>, 0)]
            ELSE FinishInstructions(Vec(r.out), b.source, r.ctx)
    IN  Finish(OnceStatements(b.content, VLen(b.content), p, ctx))

\* The constant of an expression that folds.
OnceConstant(e, p, ctx) ==
    LET CodeOf(r) == [ctx |-> r.ctx, err |-> r.err, val |-> ConstCode(r.val)]
        ArrayOf(r) == [ctx |-> r.ctx, err |-> r.err, val |-> ConstArray(r.vals)]
        NularOf(n) == [ctx |-> ctx, err |-> n.err, val |-> ConstNularCommand(n.val)]
    IN  CASE e.kind = "Code" -> CodeOf(OnceBlock(e.statements, p, ctx))
          [] e.kind = "Array" -> ArrayOf(OnceConstants(e.items, VLen(e.items), p, ctx))
          [] e.kind = "NularCommand" -> NularOf(try_normalize_name(e.name))
          [] OTHER -> [ctx |-> ctx, err |-> NoErr, val |-> ConstantOf(e)]

\* The constants of the first n elements of an array that folds.
OnceConstants(items, n, p, ctx) ==
    LET Last(front, c) ==
            [ctx |-> c.ctx, err |-> c.err, vals |-> Append(front.vals, c.val)]
        Rest(front) ==
            IF front.err # NoErr THEN front
            ELSE Last(front, OnceConstant(VAt(items, n), p, front.ctx))
    IN  IF n = 0 THEN [ctx |-> ctx, err |-> NoErr, vals |-> <<>>]
        ELSE Rest(OnceConstants(items, n - 1, p, ctx))

\* An expression lowered: one Push when it folds, else its operands and its
\* own instruction.
OnceExpression(e, p, ctx) ==
    LET PushOf(a) ==
            [ctx |-> a.ctx, err |-> a.err,
             out |-> IF a.err = NoErr THEN <<Push(a.idx)>> ELSE <<>>]
        Folded(c) ==
            IF c.err # NoErr THEN [ctx |-> c.ctx, err |-> c.err, out |-> <<>>]
            ELSE PushOf(add_constant(c.ctx, c.val))
        MakeArrayOf(r, s) ==
            IF r.err # NoErr THEN r
            ELSE IF s.err # NoErr THEN [ctx |-> r.ctx, err |-> s.err, out |-> <<>>]
            ELSE [ctx |-> r.ctx, err |-> NoErr,
                  out |-> Append(r.out, MakeArray(VLen(e.items), s.src))]
        UnaryOf(r) ==
            IF r.err # NoErr THEN r
            ELSE EmitNamed(r.ctx, r.out, e.name, e.loc, p, "CallUnary")
        BinaryOf(r1, r2) ==
            IF r2.err # NoErr THEN r2
            ELSE EmitNamed(r2.ctx, r1.out \o r2.out, e.name, e.loc, p, "CallBinary")
        RhsOf(r1) ==
            IF r1.err # NoErr THEN r1
            ELSE BinaryOf(r1, OnceExpression(e.rhs, p, r1.ctx))
    IN  IF Foldable(e) THEN Folded(OnceConstant(e, p, ctx))
        ELSE CASE e.kind = "Array" ->
                    IF ~FitsU16(VLen(e.items))
                    THEN [ctx |-> ctx, err |-> ListTooLong, out |-> <<>>]
                    ELSE MakeArrayOf(OnceElements(e.items, VLen(e.items), p, ctx),
                                     location_to_source(p, e.loc))
               [] e.kind = "NularCommand" ->
                    EmitNamed(ctx, <<>>, e.name, e.loc, p, "CallNular")
               [] e.kind = "UnaryCommand" -> UnaryOf(OnceExpression(e.arg, p, ctx))
               [] e.kind = "BinaryCommand" -> RhsOf(OnceExpression(e.lhs, p, ctx))
               [] e.kind = "Variable" ->
                    EmitNamed(ctx, <<>>, e.name, e.loc, p, "GetVariable")

\* The first n elements of an array lowered in order.
OnceElements(items, n, p, ctx) ==
    LET Join(front, r) == [ctx |-> r.ctx, err |-> r.err, out |-> front.out \o r.out]
        Rest(front) ==
            IF front.err # NoErr THEN front
            ELSE Join(front, OnceExpression(VAt(items, n), p, front.ctx))
    IN  IF n = 0 THEN [ctx |-> ctx, err |-> NoErr, out |-> <<>>]
        ELSE Rest(OnceElements(items, n - 1, p, ctx))

\* The first n statements of a list lowered in order.
OnceStatements(content, n, p, ctx) ==
    LET st == VAt(content, n)
        Marked(r) ==
            IF r.err # NoErr THEN r
            ELSE CASE st.kind = "AssignGlobal" ->
                   EmitNamed(r.ctx, <<EndStatement>> \o r.out, st.name, st.loc, p,
                             "AssignTo")
              [] st.kind = "AssignLocal" ->
                   EmitNamed(r.ctx, <<EndStatement>> \o r.out, st.name, st.loc, p,
                             "AssignToLocal")
              [] st.kind = "Expression" ->
                   [ctx |-> r.ctx, err |-> NoErr, out |-> <<EndStatement>> \o r.out]
        Join(front, r) == [ctx |-> r.ctx, err |-> r.err, out |-> front.out \o r.out]
        Rest(front) ==
            IF front.err # NoErr THEN front
            ELSE Join(front, Marked(OnceExpression(st.expr, p, front.ctx)))
    IN  IF n = 0 THEN [ctx |-> ctx, err |-> NoErr, out |-> <<>>]
        ELSE Rest(OnceStatements(content, n - 1, p, ctx))

\* What the compiler to compare with returns for a tree.
OnceCompiled(t, p) ==
    LET Finish(r) ==
            IF r.err # NoErr THEN Failure(r.err)
            ELSE Ok(Assembled(r.val, r.ctx, p))
    IN  Finish(OnceBlock(t, p, Context(Vec(<<>>), Vec(<<>>))))

\* C20: compile returns what a compiler returns that decides from the tree
\* alone whether an array folds and lowers each element once: the same
\* constant pool, name pool and instructions in the same order, or the same
\* error.
C20_FoldAttemptUnobservable ==
    pc = "done" => result = OnceCompiled(tree, processed)

====
